---- MODULE Spec2Model ----
(***************************************************************************)
(* Verification model of the Sleeper data layer (datalayer/sleeper_data):  *)
(* the normalizers, the resolvers, the guarded SQL tool and the facade     *)
(* SleeperLeagueData with its load() orchestration.                        *)
(*                                                                         *)
(* Conventions.  A Python Optional value is a sequence of length at most   *)
(* one: None is <<>> and a present value v is <<v>>.  A Python str is a    *)
(* sequence of one-character strings, so that strip(), lower(), isdigit()  *)
(* and the regular expressions of the code are computed character by       *)
(* character.  Point totals (Python floats) are integers.                  *)
(***************************************************************************)
EXTENDS Integers, Sequences, FiniteSets, TLC

VARIABLES
    matchup_rows,   \* derive_games: the MatchupRow list handed to it
    games,          \* derive_games: the Game list it returned
    raw_rosters,    \* normalize_roster_players: the raw roster payload
    roster_players, \* normalize_roster_players: the RosterPlayer list returned
    conn,           \* the SQLite store: None, or Some(record of tables)
    request,        \* the arguments of the last query-layer call
    result,         \* what the last query-layer call returned or raised
    executed,       \* the statements sent to the store, in order: those of
                    \* run_sql, or the bulk_insert calls of a load()
    week_override,  \* SleeperLeagueData.week_override (from SleeperConfig)
    effective_week, \* SleeperLeagueData.effective_week
    upstream,       \* the payloads the Sleeper API serves
    fetched,        \* the endpoint calls load() has made, in order
    cache,          \* SleeperClient: the cache entry of each cache key
    http_requests,  \* SleeperClient: the HTTP GETs issued, in order
    pc              \* which operation has run in the current behaviour

vars == <<matchup_rows, games, raw_rosters, roster_players, conn, request,
          result, executed, week_override, effective_week, upstream, fetched,
          cache, http_requests, pc>>

gamesVars == <<matchup_rows, games>>
rosterVars == <<raw_rosters, roster_players>>
callVars == <<request, result, executed>>
facadeVars == <<week_override, effective_week, upstream>>
clientVars == <<fetched, cache, http_requests>>

None == <<>>
Some(v) == <<v>>

\* All sequences over S of length 0..n.
SeqUpTo(S, n) == UNION {[1..k -> S] : k \in 0..n}

(***************************************************************************)
(* normalize/matchups.py : derive_games                                    *)
(***************************************************************************)
MaxMatchupRows == 4
GameWeeks == {1, 2}
GameMatchupIds == {10}
GameRosterIds == 1..3
GamePoints == {90, 100}

MatchupRow == [week : GameWeeks, matchup_id : GameMatchupIds,
               roster_id : GameRosterIds, points : GamePoints]

GroupKey(row) == <<row.week, row.matchup_id>>

\* grouped[(row.week, row.matchup_id)].append(row): the rows of one key, in
\* input order.
Grouped(rows, key) == SelectSeq(rows, LAMBDA r : GroupKey(r) = key)

\* The keys of the dict `grouped` in insertion order (first appearance).
RECURSIVE GroupedKeys(_)
GroupedKeys(rows) ==
    IF rows = <<>> THEN <<>>
    ELSE LET init == SubSeq(rows, 1, Len(rows) - 1)
             last == rows[Len(rows)]
             keys == GroupedKeys(init)
         IN  IF \E i \in 1..Len(keys) : keys[i] = GroupKey(last)
             THEN keys
             ELSE Append(keys, GroupKey(last))

\* A winner rule that awards an exact tie to row_a.
WinnerTieToA(row_a, row_b) ==
    IF row_a.points >= row_b.points THEN Some(row_a.roster_id)
    ELSE Some(row_b.roster_id)

\* if row_a.points > row_b.points ... elif ... else None
Winner(row_a, row_b) ==
    IF row_a.points > row_b.points THEN Some(row_a.roster_id)
    ELSE IF row_b.points > row_a.points THEN Some(row_b.roster_id)
    ELSE None

\* `if len(rows) < 2: continue`
SkipGroup(rows) == Len(rows) < 2

MakeGame(key, rows) ==
    LET row_a == rows[1]
        row_b == rows[2]
    IN  [week |-> row_a.week, matchup_id |-> key[2],
         roster_id_a |-> row_a.roster_id, roster_id_b |-> row_b.roster_id,
         points_a |-> row_a.points, points_b |-> row_b.points,
         winner_roster_id |-> Winner(row_a, row_b)]

\* A derivation that turns an unpaired row into a game against itself.
GamesOfKeysWithByes(rows, keys) ==
    [i \in 1..Len(keys) |->
        LET group == Grouped(rows, keys[i])
        IN  MakeGame(keys[i], IF SkipGroup(group) THEN group \o group ELSE group)]

RECURSIVE GamesOfKeys(_, _)
GamesOfKeys(rows, keys) ==
    IF keys = <<>> THEN <<>>
    ELSE LET group == Grouped(rows, Head(keys))
             rest == GamesOfKeys(rows, Tail(keys))
         IN  IF SkipGroup(group) THEN rest
             ELSE <<MakeGame(Head(keys), group)>> \o rest

derive_games(rows) == GamesOfKeys(rows, GroupedKeys(rows))

\* The matchups table has primary key (league_id, week, matchup_id,
\* roster_id): the rows of one payload are pairwise distinct on it.
DistinctMatchupKeys(rows) ==
    \A i, j \in 1..Len(rows) :
        (rows[i].week = rows[j].week /\ rows[i].matchup_id = rows[j].matchup_id
            /\ rows[i].roster_id = rows[j].roster_id) => i = j

InitGames ==
    /\ matchup_rows \in {rows \in SeqUpTo(MatchupRow, MaxMatchupRows) :
                            DistinctMatchupKeys(rows)}
    /\ games = <<>>
    /\ raw_rosters = <<>>
    /\ roster_players = <<>>
    /\ conn = None
    /\ request = None
    /\ result = None
    /\ executed = <<>>
    /\ week_override = None
    /\ effective_week = None
    /\ upstream = None
    /\ fetched = <<>>
    /\ cache = <<>>
    /\ http_requests = <<>>
    /\ pc = "input"

DeriveGames ==
    /\ pc = "input"
    /\ games' = derive_games(matchup_rows)
    /\ pc' = "derived"
    /\ UNCHANGED <<matchup_rows, rosterVars, conn, callVars, facadeVars, clientVars>>

NextGames == DeriveGames

SpecGames == InitGames /\ [][NextGames]_vars

\* The games produced for one (week, matchup_id) key.
GamesOf(key) == SelectSeq(games, LAMBDA g : <<g.week, g.matchup_id>> = key)

AllGroupKeys == GameWeeks \X GameMatchupIds

\* C1: for every (week, matchup_id) group of the input, a Game is produced
\* if and only if the group holds exactly 2 rows; groups of 1 row and of 3
\* or more rows produce no Game.
C1_GameIffExactlyTwo ==
    pc = "derived" =>
        \A key \in AllGroupKeys :
            (Len(GamesOf(key)) > 0) <=> (Len(Grouped(matchup_rows, key)) = 2)

\* The input row of one roster in one (week, matchup_id) group.
RowOf(week, matchup_id, roster_id) ==
    CHOOSE r \in {matchup_rows[i] : i \in 1..Len(matchup_rows)} :
        r.week = week /\ r.matchup_id = matchup_id /\ r.roster_id = roster_id

HasRowOf(week, matchup_id, roster_id) ==
    \E i \in 1..Len(matchup_rows) :
        /\ matchup_rows[i].week = week
        /\ matchup_rows[i].matchup_id = matchup_id
        /\ matchup_rows[i].roster_id = roster_id

\* C2: a Game's winner_roster_id is the roster of the input row with the
\* strictly higher points, it is None exactly when the two point totals are
\* equal, and a winner is always one of the Game's two participants.
C2_WinnerByPoints ==
    pc = "derived" =>
        \A i \in 1..Len(games) :
            LET g == games[i]
            IN  /\ HasRowOf(g.week, g.matchup_id, g.roster_id_a)
                /\ HasRowOf(g.week, g.matchup_id, g.roster_id_b)
                /\ LET pa == RowOf(g.week, g.matchup_id, g.roster_id_a).points
                       pb == RowOf(g.week, g.matchup_id, g.roster_id_b).points
                   IN  /\ g.points_a = pa /\ g.points_b = pb
                       /\ pa > pb => g.winner_roster_id = Some(g.roster_id_a)
                       /\ pb > pa => g.winner_roster_id = Some(g.roster_id_b)
                       /\ (g.winner_roster_id = None) <=> (pa = pb)
                       /\ g.winner_roster_id # None =>
                              g.winner_roster_id[1] \in {g.roster_id_a, g.roster_id_b}

\* A run that produced both a tied Game and a Game won by its second row.
C2_Witness ==
    /\ pc = "derived"
    /\ \E i, j \in 1..Len(games) :
          /\ games[i].winner_roster_id = None
          /\ games[j].winner_roster_id = Some(games[j].roster_id_b)

\* C27: every Game has two distinct participant rosters, each with a
\* MatchupRow of the Game's (week, matchup_id) carrying the Game's points; a
\* MatchupRow alone in its (week, matchup_id) group yields no Game; and no
\* (week, matchup_id) has more than one Game.
C27_GameOfTwoStoredRows ==
    pc = "derived" =>
        /\ \A i \in 1..Len(games) :
              LET g == games[i]
              IN  /\ g.roster_id_a # g.roster_id_b
                  /\ HasRowOf(g.week, g.matchup_id, g.roster_id_a)
                  /\ HasRowOf(g.week, g.matchup_id, g.roster_id_b)
                  /\ RowOf(g.week, g.matchup_id, g.roster_id_a).points = g.points_a
                  /\ RowOf(g.week, g.matchup_id, g.roster_id_b).points = g.points_b
        /\ \A key \in AllGroupKeys :
              /\ Len(Grouped(matchup_rows, key)) = 1 => GamesOf(key) = <<>>
              /\ Len(GamesOf(key)) <= 1

\* A run over one unpaired row of week 1 and a pair of week 2 with unequal
\* points: the pair became the only Game.
C27_Witness ==
    /\ pc = "derived"
    /\ Len(Grouped(matchup_rows, <<1, 10>>)) = 1
    /\ Len(Grouped(matchup_rows, <<2, 10>>)) = 2
    /\ Len(games) = 1
    /\ games[1].week = 2
    /\ games[1].points_a # games[1].points_b

(***************************************************************************)
(* normalize/rosters.py : normalize_roster_players                         *)
(***************************************************************************)
MaxRosterPlayers == 2
StatusPlayerIds == {"p1", "p2"}
PlayerRank(pid) == CASE pid = "" -> 0 [] pid = "p1" -> 1 [] pid = "p2" -> 2

RawRoster == [roster_id : {1},
              \* "" is a falsy id, dropped by `if pid`
              players : SeqUpTo({"p1", "p2", ""}, MaxRosterPlayers),
              starters : SUBSET StatusPlayerIds,
              taxi : SUBSET StatusPlayerIds,
              reserve : SUBSET StatusPlayerIds,
              ir : SUBSET StatusPlayerIds]

\* [str(pid) for pid in (raw_roster.get(key) or []) if pid]
TruthyIds(list) == SelectSeq(list, LAMBDA pid : pid # "")
TruthySet(set) == {pid \in set : pid # ""}

\* A role lookup that tests the taxi list before the starters list.
ResolveRoleTaxiFirst(raw_roster, player_id) ==
    IF player_id \in TruthySet(raw_roster.taxi) THEN "taxi"
    ELSE IF player_id \in TruthySet(raw_roster.starters) THEN "starter"
    ELSE IF player_id \in TruthySet(raw_roster.reserve) THEN "reserve"
    ELSE IF player_id \in TruthySet(raw_roster.ir) THEN "ir"
    ELSE "bench"

\* _resolve_role: first match in role_priority, else "bench".
ResolveRole(raw_roster, player_id) ==
    IF player_id \in TruthySet(raw_roster.starters) THEN "starter"
    ELSE IF player_id \in TruthySet(raw_roster.taxi) THEN "taxi"
    ELSE IF player_id \in TruthySet(raw_roster.reserve) THEN "reserve"
    ELSE IF player_id \in TruthySet(raw_roster.ir) THEN "ir"
    ELSE "bench"

\* sorted(extra_players)
RECURSIVE SortedIds(_)
SortedIds(set) ==
    IF set = {} THEN <<>>
    ELSE LET least == CHOOSE x \in set : \A y \in set : PlayerRank(x) <= PlayerRank(y)
         IN  <<least>> \o SortedIds(set \ {least})

RosterPlayerRow(raw_roster, player_id) ==
    [roster_id |-> raw_roster.roster_id, player_id |-> player_id,
     role |-> ResolveRole(raw_roster, player_id)]

RosterPlayersOf(raw_roster) ==
    LET listed == TruthyIds(raw_roster.players)
        seen == {listed[i] : i \in 1..Len(listed)}
        extra_players ==
            (TruthySet(raw_roster.starters) \cup TruthySet(raw_roster.taxi)
                \cup TruthySet(raw_roster.reserve) \cup TruthySet(raw_roster.ir)) \ seen
        extras == SortedIds(extra_players)
    IN  [i \in 1..Len(listed) |-> RosterPlayerRow(raw_roster, listed[i])]
            \o [i \in 1..Len(extras) |-> RosterPlayerRow(raw_roster, extras[i])]

RECURSIVE normalize_roster_players(_)
normalize_roster_players(rosters) ==
    IF rosters = <<>> THEN <<>>
    ELSE RosterPlayersOf(Head(rosters)) \o normalize_roster_players(Tail(rosters))

InitRosters ==
    /\ raw_rosters \in [1..1 -> RawRoster]
    /\ roster_players = <<>>
    /\ matchup_rows = <<>>
    /\ games = <<>>
    /\ conn = None
    /\ request = None
    /\ result = None
    /\ executed = <<>>
    /\ week_override = None
    /\ effective_week = None
    /\ upstream = None
    /\ fetched = <<>>
    /\ cache = <<>>
    /\ http_requests = <<>>
    /\ pc = "input"

NormalizeRosterPlayers ==
    /\ pc = "input"
    /\ roster_players' = normalize_roster_players(raw_rosters)
    /\ pc' = "normalized"
    /\ UNCHANGED <<raw_rosters, gamesVars, conn, callVars, facadeVars, clientVars>>

NextRosters == NormalizeRosterPlayers

SpecRosters == InitRosters /\ [][NextRosters]_vars

\* Every truthy player id named anywhere in a raw roster.
NamedPlayers(raw_roster) ==
    {raw_roster.players[i] : i \in 1..Len(raw_roster.players)}
        \cup raw_roster.starters \cup raw_roster.taxi
        \cup raw_roster.reserve \cup raw_roster.ir

\* C3: every player of every roster gets the first matching role in the
\* order starter > taxi > reserve > ir, and bench only when the player is in
\* none of those lists; a player in `starters` is never bench, taxi, reserve
\* or ir, whatever other status lists the player is in.
C3_RolePriority ==
    pc = "normalized" =>
        \A k \in 1..Len(raw_rosters) :
            LET rr == raw_rosters[k]
                rows == {roster_players[i] : i \in 1..Len(roster_players)}
            IN  /\ \A pid \in NamedPlayers(rr) \ {""} :
                      \E row \in rows : row.roster_id = rr.roster_id /\ row.player_id = pid
                /\ \A row \in rows :
                      row.roster_id = rr.roster_id =>
                        /\ row.player_id \in rr.starters => row.role = "starter"
                        /\ row.role = "taxi" <=>
                              (row.player_id \notin rr.starters /\ row.player_id \in rr.taxi)
                        /\ row.role = "reserve" <=>
                              (row.player_id \notin rr.starters \cup rr.taxi
                                 /\ row.player_id \in rr.reserve)
                        /\ row.role = "ir" <=>
                              (row.player_id \notin rr.starters \cup rr.taxi \cup rr.reserve
                                 /\ row.player_id \in rr.ir)
                        /\ row.role = "bench" <=>
                              row.player_id \notin
                                 rr.starters \cup rr.taxi \cup rr.reserve \cup rr.ir

\* A starter who is also in the taxi, reserve and ir lists is a starter,
\* next to a player who is only in taxi and ir and becomes taxi.
C3_Witness ==
    /\ pc = "normalized"
    /\ \E k \in 1..Len(raw_rosters) :
          /\ "p1" \in raw_rosters[k].starters \cap raw_rosters[k].taxi
                       \cap raw_rosters[k].reserve \cap raw_rosters[k].ir
          /\ "p2" \in (raw_rosters[k].taxi \cap raw_rosters[k].ir)
                       \ raw_rosters[k].starters
          /\ \E i, j \in 1..Len(roster_players) :
                /\ roster_players[i].player_id = "p1"
                /\ roster_players[i].role = "starter"
                /\ roster_players[j].player_id = "p2"
                /\ roster_players[j].role = "taxi"

(***************************************************************************)
(* Strings: a str is a sequence of one-character strings.                  *)
(***************************************************************************)
UpperLetters == <<"A", "B", "C", "D", "E", "F", "G", "H", "I", "J", "K", "L", "M",
                  "N", "O", "P", "Q", "R", "S", "T", "U", "V", "W", "X", "Y", "Z">>
LowerLetters == <<"a", "b", "c", "d", "e", "f", "g", "h", "i", "j", "k", "l", "m",
                  "n", "o", "p", "q", "r", "s", "t", "u", "v", "w", "x", "y", "z">>
DigitChars == <<"0", "1", "2", "3", "4", "5", "6", "7", "8", "9">>

IndexIn(seq, c) == CHOOSE i \in 1..Len(seq) : seq[i] = c
InSeq(seq, c) == \E i \in 1..Len(seq) : seq[i] = c

\* lower() of one character: A-Z fold to a-z, everything else is unchanged.
LowerChar(c) == IF InSeq(UpperLetters, c) THEN LowerLetters[IndexIn(UpperLetters, c)] ELSE c
Lower(str) == [i \in 1..Len(str) |-> LowerChar(str[i])]

\* upper() of one character.
UpperChar(c) == IF InSeq(LowerLetters, c) THEN UpperLetters[IndexIn(LowerLetters, c)] ELSE c

IsSpaceChar(c) == c \in {" ", "\n"}
IsDigitChar(c) == InSeq(DigitChars, c)
\* \w of the re module: letters, digits and the underscore.
IsWordChar(c) ==
    InSeq(UpperLetters, c) \/ InSeq(LowerLetters, c) \/ IsDigitChar(c) \/ c = "_"

RECURSIVE LStrip(_)
LStrip(str) ==
    IF str # <<>> /\ IsSpaceChar(Head(str)) THEN LStrip(Tail(str)) ELSE str

RECURSIVE RStrip(_)
RStrip(str) ==
    IF str # <<>> /\ IsSpaceChar(str[Len(str)])
    THEN RStrip(SubSeq(str, 1, Len(str) - 1)) ELSE str

\* str.strip()
Strip(str) == RStrip(LStrip(str))

\* str.isdigit(): non-empty and every character a digit.
IsDigit(str) == str # <<>> /\ \A i \in 1..Len(str) : IsDigitChar(str[i])

\* int(str) of a digit string.
RECURSIVE ToInt(_)
ToInt(str) ==
    IF str = <<>> THEN 0
    ELSE 10 * ToInt(SubSeq(str, 1, Len(str) - 1))
            + (IndexIn(DigitChars, str[Len(str)]) - 1)

\* Code points, for the BINARY collation of ORDER BY.
CharCode(c) ==
    IF c = "\n" THEN 10
    ELSE IF c = " " THEN 32
    ELSE IF c = "(" THEN 40
    ELSE IF c = ";" THEN 59
    ELSE IF c = "_" THEN 95
    ELSE IF IsDigitChar(c) THEN 47 + IndexIn(DigitChars, c)
    ELSE IF InSeq(UpperLetters, c) THEN 64 + IndexIn(UpperLetters, c)
    ELSE IF InSeq(LowerLetters, c) THEN 96 + IndexIn(LowerLetters, c)
    ELSE 127

RECURSIVE StrLess(_, _)
StrLess(a, b) ==
    IF b = <<>> THEN FALSE
    ELSE IF a = <<>> THEN TRUE
    ELSE IF CharCode(Head(a)) # CharCode(Head(b)) THEN CharCode(Head(a)) < CharCode(Head(b))
    ELSE StrLess(Tail(a), Tail(b))

\* ASC order of a nullable TEXT column: NULL sorts first.
OptStrLess(a, b) ==
    IF b = None THEN FALSE
    ELSE IF a = None THEN TRUE
    ELSE StrLess(a[1], b[1])

\* queries/_helpers.py normalize_lookup_key: "" for None, else str(value).strip()
normalize_lookup_key(value) == IF value = None THEN <<>> ELSE Strip(value[1])

(***************************************************************************)
(* queries/_resolvers.py : resolve_roster_id, resolve_player_id            *)
(* The store holds the rows of one league, so the league_id = :league_id   *)
(* conditions of the statements select every row.  A table is the sequence *)
(* of its rows in rowid order.                                             *)
(***************************************************************************)
EmptyStore == [leagues |-> <<>>, rosters |-> <<>>, team_profiles |-> <<>>,
               players |-> <<>>, matchups |-> <<>>, player_performances |-> <<>>,
               games |-> <<>>, transactions |-> <<>>, transaction_moves |-> <<>>,
               standings |-> <<>>, season_context |-> <<>>, draft_picks |-> <<>>]

Rows(table) == {table[i] : i \in 1..Len(table)}

\* Lexicographic order of two ORDER BY keys (tuples of nullable TEXT values).
RECURSIVE KeyLess(_, _)
KeyLess(k1, k2) ==
    IF k1 = <<>> THEN FALSE
    ELSE IF Head(k1) # Head(k2) THEN OptStrLess(Head(k1), Head(k2))
    ELSE KeyLess(Tail(k1), Tail(k2))

\* ORDER BY: rows[i] is sorted on keys[i]; rows with equal keys keep their
\* rowid order.
OrderBy(rows, keys) ==
    LET n == Len(rows)
        pos(i) == 1 + Cardinality({j \in 1..n :
                        \/ KeyLess(keys[j], keys[i])
                        \/ ~KeyLess(keys[i], keys[j]) /\ j < i})
    IN  [k \in 1..n |-> rows[CHOOSE i \in 1..n : pos(i) = k]]

\* lower(column) = lower(:key) on a nullable TEXT column.
LowerEq(column, key) == column # None /\ Lower(column[1]) = Lower(key)

RosterNotFound == [found |-> FALSE, roster_id |-> None, team_name |-> None, matches |-> None]

\* The `if key.isdigit():` branch.
ResolveRosterById(store, key) ==
    LET roster_id == ToInt(key)
        roster == SelectSeq(store.rosters, LAMBDA r : r.roster_id = roster_id)
        profile == SelectSeq(store.team_profiles, LAMBDA p : p.roster_id = roster_id)
    IN  IF roster = <<>> THEN RosterNotFound
        ELSE [found |-> TRUE, roster_id |-> Some(roster_id),
              team_name |-> IF profile # <<>> THEN profile[1].team_name ELSE None,
              matches |-> None]

RosterNameMatches(store, key) ==
    LET hits == SelectSeq(store.team_profiles,
                    LAMBDA p : LowerEq(p.team_name, key) \/ LowerEq(p.manager_name, key))
        \* ORDER BY team_name ASC, manager_name ASC
        sorted == OrderBy(hits, [i \in 1..Len(hits) |->
                                    <<hits[i].team_name, hits[i].manager_name>>])
    IN  [i \in 1..Len(sorted) |->
            [roster_id |-> sorted[i].roster_id, team_name |-> sorted[i].team_name]]

\* A name branch that returns the first of several matches as found.
ResolveRosterByNameFirst(store, key) ==
    LET matches == RosterNameMatches(store, key)
    IN  IF matches = <<>> THEN RosterNotFound
        ELSE [found |-> TRUE, roster_id |-> Some(matches[1].roster_id),
              team_name |-> matches[1].team_name, matches |-> None]

\* The name branch: no match, several matches, exactly one match.
ResolveRosterByName(store, key) ==
    LET matches == RosterNameMatches(store, key)
    IN  IF matches = <<>> THEN RosterNotFound
        ELSE IF Len(matches) > 1
        THEN [found |-> FALSE, roster_id |-> None, team_name |-> None,
              matches |-> Some(matches)]
        ELSE [found |-> TRUE, roster_id |-> Some(matches[1].roster_id),
              team_name |-> matches[1].team_name, matches |-> None]

\* A resolver that tries the names first and the roster_id only after them.
resolve_roster_id_names_first(store, roster_key) ==
    LET key == normalize_lookup_key(roster_key)
    IN  IF key = <<>> THEN RosterNotFound
        ELSE IF RosterNameMatches(store, key) # <<>> THEN ResolveRosterByName(store, key)
        ELSE IF IsDigit(key) THEN ResolveRosterById(store, key)
        ELSE RosterNotFound

resolve_roster_id(store, roster_key) ==
    LET key == normalize_lookup_key(roster_key)
    IN  IF key = <<>> THEN RosterNotFound
        ELSE IF IsDigit(key) THEN ResolveRosterById(store, key)
        ELSE ResolveRosterByName(store, key)

PlayerNotFound == [found |-> FALSE, player_id |-> None, player_name |-> None, matches |-> None]

PlayerNameMatches(store, key) ==
    LET hits == SelectSeq(store.players, LAMBDA p : LowerEq(p.full_name, key))
        \* ORDER BY full_name ASC
        sorted == OrderBy(hits, [i \in 1..Len(hits) |-> <<hits[i].full_name>>])
    IN  [i \in 1..Len(sorted) |->
            [player_id |-> sorted[i].player_id, player_name |-> sorted[i].full_name]]

\* A name lookup that returns the first of several matches as found.
ResolvePlayerByNameFirst(store, key) ==
    LET matches == PlayerNameMatches(store, key)
    IN  IF matches = <<>> THEN PlayerNotFound
        ELSE [found |-> TRUE, player_id |-> Some(matches[1].player_id),
              player_name |-> matches[1].player_name, matches |-> None]

ResolvePlayerByName(store, key) ==
    LET matches == PlayerNameMatches(store, key)
    IN  IF matches = <<>> THEN PlayerNotFound
        ELSE IF Len(matches) > 1
        THEN [found |-> FALSE, player_id |-> None, player_name |-> None,
              matches |-> Some(matches)]
        ELSE [found |-> TRUE, player_id |-> Some(matches[1].player_id),
              player_name |-> matches[1].player_name, matches |-> None]

resolve_player_id(store, player_key) ==
    LET key == normalize_lookup_key(player_key)
        by_id == SelectSeq(store.players, LAMBDA p : p.player_id = key)
    IN  IF key = <<>> THEN PlayerNotFound
        ELSE IF by_id # <<>>
        THEN [found |-> TRUE, player_id |-> Some(by_id[1].player_id),
              player_name |-> by_id[1].full_name, matches |-> None]
        ELSE ResolvePlayerByName(store, key)

MaxProfiles == 2
MaxPlayers == 2

TeamProfileRow ==
    [roster_id : 1..3,
     team_name : {None, Some(<<"A", "l">>), Some(<<"a", "l">>), Some(<<"2">>)},
     manager_name : {None, Some(<<"A", "L">>)}]
PlayerRow ==
    [player_id : {<<"7">>, <<"8">>, <<"K", "C">>},
     full_name : {None, Some(<<"A", "l">>), Some(<<"a", "l">>), Some(<<"7">>)}]

RosterKeys == {None, Some(<<>>), Some(<<" ">>), Some(<<"A", "L">>), Some(<<"A", "l">>),
               Some(<<" ", "a", "l", " ">>), Some(<<"B">>), Some(<<"2">>),
               Some(<<" ", "2">>), Some(<<"0", "2">>), Some(<<"9">>)}
PlayerKeys == {None, Some(<<>>), Some(<<"A", "L">>), Some(<<" ", "a", "l", " ">>),
               Some(<<"B">>), Some(<<"7">>), Some(<<"7", " ">>), Some(<<"K", "C">>),
               Some(<<"k", "c">>)}

\* team_profiles has primary key (league_id, roster_id), players has primary
\* key player_id; load() stores one rosters row per team profile.
DistinctKeys(keys) ==
    \A i, j \in 1..Len(keys) : keys[i] = keys[j] => i = j

ResolveStores ==
    LET ProfileTables ==
            {t \in SeqUpTo(TeamProfileRow, MaxProfiles) :
                DistinctKeys([i \in 1..Len(t) |-> t[i].roster_id])}
        PlayerTables ==
            {t \in SeqUpTo(PlayerRow, MaxPlayers) :
                DistinctKeys([i \in 1..Len(t) |-> t[i].player_id])}
        RostersOf(profiles) ==
            [i \in 1..Len(profiles) |-> [roster_id |-> profiles[i].roster_id]]
    IN  {[EmptyStore EXCEPT !.team_profiles = t, !.rosters = RostersOf(t)] :
            t \in ProfileTables}
        \cup {[EmptyStore EXCEPT !.players = t] : t \in PlayerTables}

InitResolve ==
    /\ conn \in {Some(st) : st \in ResolveStores}
    /\ request = None
    /\ result = None
    /\ executed = <<>>
    /\ matchup_rows = <<>>
    /\ games = <<>>
    /\ raw_rosters = <<>>
    /\ roster_players = <<>>
    /\ week_override = None
    /\ effective_week = None
    /\ upstream = None
    /\ fetched = <<>>
    /\ cache = <<>>
    /\ http_requests = <<>>
    /\ pc = "loaded"

ResolveRoster ==
    \E roster_key \in RosterKeys :
        /\ conn # None
        /\ request' = Some([op |-> "resolve_roster_id", key |-> roster_key])
        /\ result' = Some(resolve_roster_id(conn[1], roster_key))
        /\ UNCHANGED <<conn, executed, gamesVars, rosterVars, facadeVars, clientVars, pc>>

ResolvePlayer ==
    \E player_key \in PlayerKeys :
        /\ conn # None
        /\ request' = Some([op |-> "resolve_player_id", key |-> player_key])
        /\ result' = Some(resolve_player_id(conn[1], player_key))
        /\ UNCHANGED <<conn, executed, gamesVars, rosterVars, facadeVars, clientVars, pc>>

NextResolve == ResolveRoster \/ ResolvePlayer

SpecResolve == InitResolve /\ [][NextResolve]_vars

\* Case-insensitive equality of two names, letter by letter.
SameName(a, b) ==
    Len(a) = Len(b) /\ \A i \in 1..Len(a) : UpperChar(a[i]) = UpperChar(b[i])

\* The key as typed, without surrounding blanks ("" for None).
TypedKey(key) ==
    IF key = None THEN <<>>
    ELSE LET str == key[1]
             idx == {i \in 1..Len(str) : ~IsSpaceChar(str[i])}
         IN  IF idx = {} THEN <<>>
             ELSE SubSeq(str, CHOOSE i \in idx : \A j \in idx : i <= j,
                              CHOOSE i \in idx : \A j \in idx : i >= j)

NumericKey(str) == str # <<>> /\ \A i \in 1..Len(str) : str[i] \in Rows(DigitChars)

\* The rosters whose team or manager name is the key, case-insensitively.
RosterCandidates(key) ==
    {p.roster_id : p \in {q \in Rows(conn[1].team_profiles) :
        \/ q.team_name # None /\ SameName(q.team_name[1], key)
        \/ q.manager_name # None /\ SameName(q.manager_name[1], key)}}

PlayerCandidates(key) ==
    {p.player_id : p \in {q \in Rows(conn[1].players) :
        q.full_name # None /\ SameName(q.full_name[1], key)}}

IsPlayerId(key) == \E p \in Rows(conn[1].players) : p.player_id = key

\* C4: a name key (for rosters a non-numeric key, for players a key that is
\* no player_id) that matches several entities case-insensitively gives
\* found=false with a `matches` list holding every candidate exactly once,
\* never found=true; a key matching exactly one entity gives found=true for
\* that entity, and a key matching none gives found=false without `matches`.
C4_AmbiguousKeyReported ==
    (request # None /\ result # None) =>
        LET key == TypedKey(request[1].key)
            res == result[1]
        IN  /\ (request[1].op = "resolve_roster_id" /\ key # <<>> /\ ~NumericKey(key)) =>
                  LET cands == RosterCandidates(key)
                  IN  /\ Cardinality(cands) > 1 =>
                            /\ ~res.found /\ res.matches # None
                            /\ Len(res.matches[1]) = Cardinality(cands)
                            /\ {m.roster_id : m \in Rows(res.matches[1])} = cands
                      /\ Cardinality(cands) = 1 =>
                            res.found /\ res.matches = None /\ {res.roster_id[1]} = cands
                      /\ cands = {} => ~res.found /\ res.matches = None
            /\ (request[1].op = "resolve_player_id" /\ key # <<>> /\ ~IsPlayerId(key)) =>
                  LET cands == PlayerCandidates(key)
                  IN  /\ Cardinality(cands) > 1 =>
                            /\ ~res.found /\ res.matches # None
                            /\ Len(res.matches[1]) = Cardinality(cands)
                            /\ {m.player_id : m \in Rows(res.matches[1])} = cands
                      /\ Cardinality(cands) = 1 =>
                            res.found /\ res.matches = None /\ {res.player_id[1]} = cands
                      /\ cands = {} => ~res.found /\ res.matches = None
            /\ (request[1].op = "resolve_player_id" /\ key # <<>> /\ IsPlayerId(key)) =>
                  res.found /\ res.player_id = Some(key) /\ res.matches = None
            /\ key = <<>> => ~res.found /\ res.matches = None

\* Rosters named "Al" and "al" resolved with key "AL": two matches, not found.
C4_Witness ==
    /\ request = Some([op |-> "resolve_roster_id", key |-> Some(<<"A", "L">>)])
    /\ \E p, q \in Rows(conn[1].team_profiles) :
          /\ p.team_name = Some(<<"A", "l">>) /\ q.team_name = Some(<<"a", "l">>)
          /\ p.manager_name = None /\ q.manager_name = None
    /\ result # None /\ ~result[1].found
    /\ result[1].matches # None /\ Len(result[1].matches[1]) = 2

\* C5: a numeric key is looked up by roster_id only: the call finds a roster
\* exactly when a roster with that roster_id is stored, returns that
\* roster_id with the team name of its own profile, and never a `matches`
\* list, whatever team or manager names equal the key.
C5_NumericKeyById ==
    (request # None /\ result # None /\ request[1].op = "resolve_roster_id"
        /\ NumericKey(TypedKey(request[1].key))) =>
        LET key == TypedKey(request[1].key)
            res == result[1]
            stored == {r \in Rows(conn[1].rosters) : Some(r.roster_id) = res.roster_id}
        IN  /\ res.found <=> (\E r \in Rows(conn[1].rosters) : r.roster_id = ToInt(key))
            /\ res.matches = None
            /\ res.found =>
                  /\ res.roster_id = Some(ToInt(key))
                  /\ stored # {}
                  /\ \A p \in Rows(conn[1].team_profiles) :
                        p.roster_id = ToInt(key) => res.team_name = p.team_name

\* Key "2" with roster 2 stored and another roster named "2": roster 2 wins.
C5_Witness ==
    /\ request = Some([op |-> "resolve_roster_id", key |-> Some(<<"2">>)])
    /\ \E p \in Rows(conn[1].team_profiles) :
          p.roster_id # 2 /\ p.team_name = Some(<<"2">>)
    /\ \E p \in Rows(conn[1].team_profiles) : p.roster_id = 2
    /\ result # None /\ result[1].found /\ result[1].roster_id = Some(2)

(***************************************************************************)
(* queries/sql_tool.py : _ensure_select_only, _ensure_limit, run_sql       *)
(***************************************************************************)
MaxFragments == 3
DefaultLimit == 200

LimitWord == <<"l", "i", "m", "i", "t">>
SelectWord == <<"s", "e", "l", "e", "c", "t">>

\* The alternatives of the _DISALLOWED pattern.
DisallowedWords ==
    {<<"p", "r", "a", "g", "m", "a">>, <<"a", "t", "t", "a", "c", "h">>,
     <<"d", "e", "t", "a", "c", "h">>, <<"i", "n", "s", "e", "r", "t">>,
     <<"u", "p", "d", "a", "t", "e">>, <<"d", "e", "l", "e", "t", "e">>,
     <<"d", "r", "o", "p">>, <<"a", "l", "t", "e", "r">>,
     <<"c", "r", "e", "a", "t", "e">>, <<"r", "e", "p", "l", "a", "c", "e">>}

\* The pieces the statements of the model are concatenated from.
SqlFragments ==
    {SelectWord, <<"S", "e", "l", "e", "c", "t">>, <<"(">>, <<" ">>, <<";">>,
     <<"x">>, <<"_">>, <<"D", "R", "O", "P">>, <<"c", "r", "e", "a", "t", "e">>,
     <<"L", "i", "m", "i", "t">>}

RECURSIVE Flatten(_)
Flatten(frags) == IF frags = <<>> THEN <<>> ELSE Head(frags) \o Flatten(Tail(frags))

Statements == {Flatten(f) : f \in SeqUpTo(SqlFragments, MaxFragments)}
Limits == {5, DefaultLimit}

\* str.startswith(prefix)
StartsWith(str, prefix) ==
    Len(str) >= Len(prefix) /\ SubSeq(str, 1, Len(prefix)) = prefix

\* str.lstrip("(")
RECURSIVE LStripParen(_)
LStripParen(str) ==
    IF str # <<>> /\ Head(str) = "(" THEN LStripParen(Tail(str)) ELSE str

\* str.rstrip(";")
RECURSIVE RStripSemi(_)
RStripSemi(str) ==
    IF str # <<>> /\ str[Len(str)] = ";"
    THEN RStripSemi(SubSeq(str, 1, Len(str) - 1)) ELSE str

\* The regex assertion \b between str[p-1] and str[p], p in 1..Len(str)+1.
WordBoundary(str, p) ==
    LET before == p > 1 /\ IsWordChar(str[p - 1])
        after == p <= Len(str) /\ IsWordChar(str[p])
    IN  before # after

\* re.IGNORECASE match of the literal `word` at position i.
MatchesAt(str, i, word) ==
    /\ i + Len(word) - 1 <= Len(str)
    /\ Lower(SubSeq(str, i, i + Len(word) - 1)) = word

\* A search for (w1|w2|...) without the \b assertions.
SearchSubstring(str, words) ==
    \E word \in words : \E i \in 1..Len(str) : MatchesAt(str, i, word)

\* re.search(r"\b(w1|w2|...)\b", str, re.IGNORECASE)
SearchWord(str, words) ==
    \E word \in words : \E i \in 1..Len(str) :
        /\ WordBoundary(str, i)
        /\ MatchesAt(str, i, word)
        /\ WordBoundary(str, i + Len(word))

\* A validation that lets every statement through.
ensure_select_only_unguarded(query) == "ok"

\* _ensure_select_only: "ok", or the message of the ValueError it raises.
ensure_select_only(query) ==
    LET trimmed == LStripParen(Strip(query))
    IN  IF ~StartsWith(Lower(trimmed), SelectWord)
        THEN "Only SELECT queries are allowed."
        ELSE IF SearchWord(trimmed, DisallowedWords)
        THEN "Disallowed SQL keyword detected."
        ELSE "ok"

\* f"{limit}" of a non-negative int.
RECURSIVE ToStr(_)
ToStr(n) ==
    IF n < 10 THEN <<DigitChars[n + 1]>>
    ELSE ToStr(n \div 10) \o <<DigitChars[(n % 10) + 1]>>

LimitSuffix(limit) == <<" ", "L", "I", "M", "I", "T", " ">> \o ToStr(limit) \o <<";">>

\* _ensure_limit
ensure_limit(query, limit) ==
    IF SearchWord(query, {LimitWord}) THEN query
    ELSE RStripSemi(query) \o LimitSuffix(limit)

\* sqlite3 refuses a text with anything but blanks after its first ";"
\* ("You can only execute one statement at a time").
SingleStatement(sql) ==
    \A i \in 1..Len(sql) :
        sql[i] = ";" => \A j \in (i + 1)..Len(sql) : IsSpaceChar(sql[j])

\* The first word of a statement, lowercased, after blanks and "(".
RECURSIVE LeadingWord(_)
LeadingWord(str) ==
    IF str = <<>> \/ ~IsWordChar(Head(str)) THEN <<>>
    ELSE <<LowerChar(Head(str))>> \o LeadingWord(Tail(str))

\* conn.execute(sql): the store after the statement.  A text of several
\* statements is refused as a whole; a DROP or DELETE (the statements of
\* the model name no table) empties the tables; any other statement leaves
\* every table alone.
StoreAfter(store, sql) ==
    IF ~SingleStatement(sql) THEN store
    ELSE IF LeadingWord(LStripParen(Strip(sql)))
                \in {<<"d", "r", "o", "p">>, <<"d", "e", "l", "e", "t", "e">>}
    THEN [table \in DOMAIN store |-> <<>>]
    ELSE store

ExecuteRaises(sql) ==
    IF SingleStatement(sql) THEN None ELSE Some("ProgrammingError")

\* A run_sql that hands the statement to the store before validating it.
RunSqlExecuteFirst(store, query, limit) ==
    LET verdict == ensure_select_only(query)
        sql == ensure_limit(query, limit)
    IN  [sent |-> <<sql>>,
         raised |-> IF verdict = "ok" THEN ExecuteRaises(sql) ELSE Some("ValueError"),
         message |-> verdict,
         store |-> StoreAfter(store, sql)]

\* run_sql: validate, cap, execute.  `sent` are the statements handed to
\* conn.execute, `raised` the exception class that leaves the call.
RunSqlOutcome(store, query, limit) ==
    LET verdict == ensure_select_only(query)
        sql == ensure_limit(query, limit)
    IN  IF verdict # "ok"
        THEN [sent |-> <<>>, raised |-> Some("ValueError"), message |-> verdict,
              store |-> store]
        ELSE [sent |-> <<sql>>, raised |-> ExecuteRaises(sql), message |-> "ok",
              store |-> StoreAfter(store, sql)]

InitSql ==
    /\ conn = Some([EmptyStore EXCEPT
                        !.players = <<[player_id |-> <<"7">>, full_name |-> None]>>])
    /\ request = None
    /\ result = None
    /\ executed = <<>>
    /\ matchup_rows = <<>>
    /\ games = <<>>
    /\ raw_rosters = <<>>
    /\ roster_players = <<>>
    /\ week_override = None
    /\ effective_week = None
    /\ upstream = None
    /\ fetched = <<>>
    /\ cache = <<>>
    /\ http_requests = <<>>
    /\ pc = "loaded"

RunSql ==
    \E query \in Statements, limit \in Limits :
        LET out == RunSqlOutcome(conn[1], query, limit)
        IN  /\ pc = "loaded"
            /\ conn # None
            /\ request' = Some([op |-> "run_sql", query |-> query, limit |-> limit])
            /\ result' = Some([raised |-> out.raised, message |-> out.message])
            /\ executed' = executed \o out.sent
            /\ conn' = Some(out.store)
            /\ pc' = "called"
            /\ UNCHANGED <<gamesVars, rosterVars, facadeVars, clientVars>>

NextSql == RunSql

SpecSql == InitSql /\ [][NextSql]_vars

\* The whole words of a text: its maximal runs of word characters, lowercased.
WholeWords(str) ==
    {Lower(SubSeq(str, i, j)) : <<i, j>> \in
        {ij \in (1..Len(str)) \X (1..Len(str)) :
            /\ ij[1] <= ij[2]
            /\ \A k \in ij[1]..ij[2] : IsWordChar(str[k])
            /\ ij[1] = 1 \/ ~IsWordChar(str[ij[1] - 1])
            /\ ij[2] = Len(str) \/ ~IsWordChar(str[ij[2] + 1])}}

ContainsDisallowedWord(str) == WholeWords(str) \cap DisallowedWords # {}

\* The text reads `select` (in any case) at position i.
ReadsSelectAt(str, i) ==
    /\ i + 5 <= Len(str)
    /\ \A k \in 1..6 : UpperChar(str[i + k - 1]) = UpperChar(SelectWord[k])

\* The statement starts with `select` once leading blanks are removed.
SelectAfterBlanks(str) ==
    \E i \in 1..Len(str) :
        /\ \A k \in 1..(i - 1) : IsSpaceChar(str[k])
        /\ ReadsSelectAt(str, i)

\* The statement starts with `select` once leading blanks and, after them,
\* leading "(" characters are removed.
SelectAfterBlanksAndParens(str) ==
    \E i \in 1..Len(str) : \E b \in 0..(i - 1) :
        /\ \A k \in 1..b : IsSpaceChar(str[k])
        /\ \A k \in (b + 1)..(i - 1) : str[k] = "("
        /\ ReadsSelectAt(str, i)

SqlCalled == pc = "called" /\ request # None /\ request[1].op = "run_sql"
SqlAccepted == SqlCalled /\ executed # <<>>

\* C6 as stated: a statement reaches the store only if its trimmed,
\* lowercased text starts with `select` and it holds no disallowed word as
\* a whole word.
C6_AcceptsOnlySelectText ==
    SqlAccepted =>
        /\ SelectAfterBlanks(request[1].query)
        /\ ~ContainsDisallowedWord(request[1].query)

\* C6 amended: a statement reaches the store exactly when its text, after
\* trimming blanks and then leading "(" characters, starts with `select`
\* (in any case) and no whole word of it is a disallowed word; a disallowed
\* word inside a longer identifier does not cause rejection.
C6_AcceptsSelectAfterParens ==
    SqlCalled =>
        (executed # <<>>) <=>
            (/\ SelectAfterBlanksAndParens(request[1].query)
             /\ ~ContainsDisallowedWord(request[1].query))

\* "select_create" holds `create` only inside a longer identifier and runs.
C6_Witness ==
    /\ SqlCalled
    /\ request[1].query = SelectWord \o <<"_", "c", "r", "e", "a", "t", "e">>
    /\ executed # <<>>
    /\ result[1].raised = None

\* C7: a call that run_sql rejects (no leading select, or a disallowed
\* whole word) raises ValueError, hands no statement to the store and
\* leaves the store as it was.
C7_RejectedBeforeExecution ==
    [][(/\ request' # request
        /\ request'[1].op = "run_sql"
        /\ \/ ~SelectAfterBlanksAndParens(request'[1].query)
           \/ ContainsDisallowedWord(request'[1].query))
         => (/\ result'[1].raised = Some("ValueError")
             /\ executed' = executed
             /\ conn' = conn)]_vars

\* "select;DROP" was rejected with nothing executed.
C7_Witness ==
    /\ SqlCalled
    /\ request[1].query = SelectWord \o <<";", "D", "R", "O", "P">>
    /\ result[1].raised = Some("ValueError")
    /\ executed = <<>>
    /\ conn[1].players # <<>>

\* The text without its trailing ";" characters.
WithoutTrailingSemis(str) ==
    LET keep == {i \in 1..Len(str) : str[i] # ";"}
    IN  IF keep = {} THEN <<>>
        ELSE SubSeq(str, 1, CHOOSE i \in keep : \A j \in keep : i >= j)

\* C8: an accepted single statement without the word `limit` is executed
\* as the original followed by ` LIMIT <cap>;` and is still a single
\* statement; a statement that has the word `limit` is executed unchanged.
C8_LimitAppended ==
    (SqlAccepted /\ SingleStatement(request[1].query)) =>
        IF LimitWord \in WholeWords(request[1].query)
        THEN executed = <<request[1].query>>
        ELSE /\ executed = <<WithoutTrailingSemis(request[1].query)
                               \o LimitSuffix(request[1].limit)>>
             /\ SingleStatement(executed[1])

(***************************************************************************)
(* sleeper_league_data.py : SleeperLeagueData.load                         *)
(*                                                                         *)
(* The payloads served upstream are the variable `upstream`: the state,    *)
(* the league, its users and rosters, and the matchups and transactions of *)
(* every week.  The league of the model has no draft rounds, no players    *)
(* payload and empty brackets, so load() stores no draft pick, player,     *)
(* roster player or bracket row.  generated_at (the clock) is not carried. *)
(***************************************************************************)
MaxWeek == 2

OptWeeks == {None} \cup {Some(w) : w \in 0..MaxWeek}

\* Python truthiness of an Optional[int] and of an Optional[str].
Truthy(opt) == opt # None /\ opt[1] # 0
TruthyStr(opt) == opt # None /\ opt[1] # <<>>

\* `a or b` on Optional[int] values.
PyOr(a, b) == IF Truthy(a) THEN a ELSE b
\* computed_week = int(raw_state.get("week") or 0)
ComputedWeek(raw_state) == PyOr(raw_state.week, Some(0))[1]

\* effective_week = int(self.week_override or computed_week or 0)
EffectiveWeek(override, computed_week) ==
    PyOr(PyOr(override, Some(computed_week)), Some(0))[1]

\* normalize_league: the columns of the leagues row the queries read.
normalize_league(raw_league) ==
    [league_id |-> raw_league.league_id,
     playoff_week_start |-> PyOr(raw_league.playoff_week_start,
                                 raw_league.settings.playoff_week_start),
     league_average_match |-> raw_league.settings.league_average_match]

normalize_rosters(rosters) ==
    [i \in 1..Len(rosters) |-> [roster_id |-> rosters[i].roster_id]]

derive_team_profiles(rosters, raw_users) ==
    [i \in 1..Len(rosters) |->
        LET \* user_by_id.get(str(owner_id)) if owner_id is not None else None
            user == IF rosters[i].owner_id = None THEN <<>>
                    ELSE SelectSeq(raw_users,
                            LAMBDA u : u.user_id = rosters[i].owner_id[1])
            \* user.get("display_name") or user.get("username")
            display_name == IF user = <<>> THEN None
                            ELSE IF TruthyStr(user[Len(user)].display_name)
                            THEN user[Len(user)].display_name
                            ELSE user[Len(user)].username
            manager == IF TruthyStr(display_name) THEN display_name ELSE None
            team_name == IF TruthyStr(rosters[i].metadata.team_name)
                         THEN rosters[i].metadata.team_name ELSE None
        IN  [roster_id |-> rosters[i].roster_id,
             team_name |-> IF team_name # None THEN team_name ELSE manager,
             manager_name |-> manager]]

\* normalize_matchups: the MatchupRow list of one week's payload.
MatchupRowsOf(raw_matchups, week) ==
    LET kept == SelectSeq(raw_matchups,
                    LAMBDA r : r.matchup_id # None /\ r.roster_id # None)
    IN  [i \in 1..Len(kept) |->
            [week |-> week, matchup_id |-> kept[i].matchup_id[1],
             roster_id |-> kept[i].roster_id[1], points |-> kept[i].points]]

\* normalize_matchups: the PlayerPerformance list of one week's payload.
PerformancesOf(raw_matchups, week) ==
    LET kept == SelectSeq(raw_matchups,
                    LAMBDA r : r.matchup_id # None /\ r.roster_id # None)
        \* points.get(str(player_id), 0.0) on the players_points items
        PointsOf(players_points, player_id) ==
            LET hit == SelectSeq(players_points, LAMBDA pr : pr[1] = player_id)
            IN  IF hit = <<>> THEN 0 ELSE hit[Len(hit)][2]
    IN  Flatten([i \in 1..Len(kept) |->
            LET players == SelectSeq(kept[i].players, LAMBDA pid : pid # <<>>)
            IN  [k \in 1..Len(players) |->
                    [week |-> week, player_id |-> players[k],
                     roster_id |-> kept[i].roster_id[1],
                     matchup_id |-> kept[i].matchup_id[1],
                     points |-> PointsOf(kept[i].players_points, players[k]),
                     role |-> IF InSeq(kept[i].starters, players[k])
                              THEN "starter" ELSE "bench"]]])

\* derive_games(matchup_rows, is_playoffs=...): the Game rows of one week.
GamesOfWeek(rows, is_playoffs) ==
    LET gs == derive_games(rows)
    IN  [i \in 1..Len(gs) |->
            [week |-> gs[i].week, matchup_id |-> gs[i].matchup_id,
             roster_id_a |-> gs[i].roster_id_a, roster_id_b |-> gs[i].roster_id_b,
             points_a |-> gs[i].points_a, points_b |-> gs[i].points_b,
             winner_roster_id |-> gs[i].winner_roster_id,
             is_playoffs |-> is_playoffs]]

normalize_transactions(raw_transactions, week) ==
    [i \in 1..Len(raw_transactions) |->
        [week |-> week, transaction_id |-> raw_transactions[i].transaction_id,
         type |-> raw_transactions[i].type,
         created_ts |-> raw_transactions[i].created]]

\* _normalize_moves_from_map: one move per (player_id, roster_id) item.
MovesFromMap(moves, transaction_id, direction) ==
    [k \in 1..Len(moves) |->
        [transaction_id |-> transaction_id, roster_id |-> moves[k][2],
         player_id |-> moves[k][1], asset_type |-> "player",
         direction |-> direction]]

normalize_transaction_moves(raw_transactions) ==
    Flatten([i \in 1..Len(raw_transactions) |->
        MovesFromMap(raw_transactions[i].adds,
                     raw_transactions[i].transaction_id, "add")
            \o MovesFromMap(raw_transactions[i].drops,
                            raw_transactions[i].transaction_id, "drop")])

\* chars_per_week = 2 if league_average_match == 1 else 1
CharsPerWeek(raw_league) ==
    IF PyOr(raw_league.settings.league_average_match, Some(0))[1] = 1 THEN 2 ELSE 1

\* A decoder that reports the outcomes of each week alone, not the running
\* totals.
record_string_to_weeks_per_week(record_string, chars_per_week) ==
    IF ~TruthyStr(record_string) THEN <<>>
    ELSE LET stripped == Strip(record_string[1])
             upper == [i \in 1..Len(stripped) |-> UpperChar(stripped[i])]
             trimmed == SelectSeq(upper, LAMBDA ch : ~IsSpaceChar(ch))
             CountOf(str, c) == Cardinality({i \in 1..Len(str) : str[i] = c})
             week_count == Len(trimmed) \div chars_per_week
         IN  [week \in 1..week_count |->
                LET slice_value == SubSeq(trimmed, (week - 1) * chars_per_week + 1,
                                          week * chars_per_week)
                IN  [week |-> week, wins |-> CountOf(slice_value, "W"),
                     losses |-> CountOf(slice_value, "L"),
                     ties |-> CountOf(slice_value, "T")]]

\* load()._record_string_to_weeks: the cumulative (week, wins, losses, ties)
\* of a record string; the outcomes of week k are the k-th slice of
\* chars_per_week characters.
record_string_to_weeks(record_string, chars_per_week) ==
    IF ~TruthyStr(record_string) THEN <<>>
    ELSE LET stripped == Strip(record_string[1])
             upper == [i \in 1..Len(stripped) |-> UpperChar(stripped[i])]
             trimmed == SelectSeq(upper, LAMBDA ch : ~IsSpaceChar(ch))
             CountOf(str, c) == Cardinality({i \in 1..Len(str) : str[i] = c})
             week_count == Len(trimmed) \div chars_per_week
         IN  [week \in 1..week_count |->
                LET seen == SubSeq(trimmed, 1, week * chars_per_week)
                IN  [week |-> week, wins |-> CountOf(seen, "W"),
                     losses |-> CountOf(seen, "L"), ties |-> CountOf(seen, "T")]]

\* The record_standings list of load(): the decoded weeks of every roster
\* that are before playoff_week_start.
RecordStandings(rosters, chars_per_week, playoff_week_start) ==
    Flatten([i \in 1..Len(rosters) |->
        LET weeks == record_string_to_weeks(rosters[i].metadata.record, chars_per_week)
            kept == SelectSeq(weeks, LAMBDA w :
                        ~(playoff_week_start # None /\ w.week >= playoff_week_start[1]))
        IN  [k \in 1..Len(kept) |->
                [week |-> kept[k].week, roster_id |-> rosters[i].roster_id,
                 wins |-> kept[k].wins, losses |-> kept[k].losses,
                 ties |-> kept[k].ties, points_for |-> 0, points_against |-> 0,
                 rank |-> None]]])

\* A live snapshot filed under the week after the one asked for.
normalize_standings_next_week(rosters, week) ==
    [i \in 1..Len(rosters) |->
        [week |-> week + 1, roster_id |-> rosters[i].roster_id,
         wins |-> PyOr(rosters[i].settings.wins, Some(0))[1],
         losses |-> PyOr(rosters[i].settings.losses, Some(0))[1],
         ties |-> PyOr(rosters[i].settings.ties, Some(0))[1],
         points_for |-> PyOr(rosters[i].settings.fpts, Some(0))[1],
         points_against |-> PyOr(rosters[i].settings.fpts_against, Some(0))[1],
         rank |-> rosters[i].settings.rank]]

\* normalize_standings: one row per raw roster, from its settings.
normalize_standings(rosters, week) ==
    [i \in 1..Len(rosters) |->
        [week |-> week, roster_id |-> rosters[i].roster_id,
         wins |-> PyOr(rosters[i].settings.wins, Some(0))[1],
         losses |-> PyOr(rosters[i].settings.losses, Some(0))[1],
         ties |-> PyOr(rosters[i].settings.ties, Some(0))[1],
         points_for |-> PyOr(rosters[i].settings.fpts, Some(0))[1],
         points_against |-> PyOr(rosters[i].settings.fpts_against, Some(0))[1],
         rank |-> rosters[i].settings.rank]]

\* A load() that stores the live snapshot whatever weeks were decoded.
ShouldInsertCurrentAlways(record_weeks, effective, playoff_week_start) == TRUE

\* should_insert_current of load()
ShouldInsertCurrent(record_weeks, effective, playoff_week_start) ==
    IF record_weeks = {} THEN TRUE
    ELSE IF effective > (CHOOSE x \in record_weeks : \A y \in record_weeks : x >= y)
    THEN playoff_week_start = None \/ effective < playoff_week_start[1]
    ELSE FALSE

\* The standings rows load() stores (its `if effective_week > 0:` block
\* after the per-week loop).
StandingsOfLoad(up, effective) ==
    LET league == normalize_league(up.league)
        decoded == RecordStandings(up.rosters, CharsPerWeek(up.league),
                                   league.playoff_week_start)
        record_weeks == {decoded[i].week : i \in 1..Len(decoded)}
    IN  IF effective > 0
        THEN decoded \o
             (IF ShouldInsertCurrent(record_weeks, effective, league.playoff_week_start)
              THEN normalize_standings(up.rosters, effective) ELSE <<>>)
        ELSE <<>>

\* The store after `for week in range(1, effective_week + 1)`.
RECURSIVE WeekLoop(_, _, _)
WeekLoop(store, up, week) ==
    IF week < 1 THEN store
    ELSE LET before == WeekLoop(store, up, week - 1)
             rows == MatchupRowsOf(up.matchups[week], week)
             pws == normalize_league(up.league).playoff_week_start
         IN  [before EXCEPT
                !.matchups = @ \o rows,
                !.player_performances = @ \o PerformancesOf(up.matchups[week], week),
                !.games = @ \o GamesOfWeek(rows, pws # None /\ week >= pws[1]),
                !.transactions = @ \o normalize_transactions(up.transactions[week], week),
                !.transaction_moves = @ \o normalize_transaction_moves(up.transactions[week])]

\* The store load() builds from the payloads.
LoadedStore(up, override) ==
    LET computed == ComputedWeek(up.state)
        effective == EffectiveWeek(override, computed)
        base == [EmptyStore EXCEPT
                    !.leagues = <<normalize_league(up.league)>>,
                    !.rosters = normalize_rosters(up.rosters),
                    !.team_profiles = derive_team_profiles(up.rosters, up.users)]
        weekly == WeekLoop(base, up, effective)
    IN  [weekly EXCEPT
            !.standings = StandingsOfLoad(up, effective),
            !.season_context = <<[computed_week |-> computed,
                                   override_week |-> override,
                                   effective_week |-> effective]>>]

(***************************************************************************)
(* queries/league.py, queries/team.py, queries/transactions.py             *)
(*                                                                         *)
(* A dict is a record and a list a sequence.  A week that the code holds   *)
(* in an `int | None` name is an Optional; the payload rows carry the      *)
(* columns left by strip_id_fields.                                        *)
(***************************************************************************)
RECURSIVE IntKeyLess(_, _)
IntKeyLess(k1, k2) ==
    IF k1 = <<>> THEN FALSE
    ELSE IF Head(k1) # Head(k2) THEN Head(k1) < Head(k2)
    ELSE IntKeyLess(Tail(k1), Tail(k2))

\* ORDER BY on INTEGER/REAL keys (and the stable list.sort of Python).
OrderByInt(rows, keys) ==
    LET n == Len(rows)
        pos(i) == 1 + Cardinality({j \in 1..n :
                        \/ IntKeyLess(keys[j], keys[i])
                        \/ ~IntKeyLess(keys[i], keys[j]) /\ j < i})
    IN  [k \in 1..n |-> rows[CHOOSE i \in 1..n : pos(i) = k]]

\* The last number alone (the points of the latest week), not the sum.
SumSeqLatest(ns) == IF ns = <<>> THEN 0 ELSE ns[Len(ns)]

RECURSIVE SumSeq(_)
SumSeq(ns) == IF ns = <<>> THEN 0 ELSE Head(ns) + SumSeq(Tail(ns))

\* The values of a sequence in order of first appearance.
RECURSIVE FirstSeen(_)
FirstSeen(seq) ==
    IF seq = <<>> THEN <<>>
    ELSE LET init == FirstSeen(SubSeq(seq, 1, Len(seq) - 1))
         IN  IF InSeq(init, seq[Len(seq)]) THEN init ELSE Append(init, seq[Len(seq)])

Limited(rows, limit) == SubSeq(rows, 1, IF limit < Len(rows) THEN limit ELSE Len(rows))

\* LEFT JOIN team_profiles tp ON tp.roster_id = ...
TeamNameOf(store, roster_id) ==
    LET profile == SelectSeq(store.team_profiles, LAMBDA p : p.roster_id = roster_id)
    IN  IF profile = <<>> THEN None ELSE profile[1].team_name

\* LEFT JOIN players p ON p.player_id = ...
PlayerNameOf(store, player_id) ==
    LET player == SelectSeq(store.players, LAMBDA p : p.player_id = player_id)
    IN  IF player = <<>> THEN None ELSE player[1].full_name

\* The season_context row read by `SELECT effective_week FROM
\* season_context LIMIT 1`, as an Optional week.
ContextWeek(store) ==
    IF store.season_context = <<>> THEN None
    ELSE Some(store.season_context[1].effective_week)

\* effective_week = week; if effective_week is None: (read the context)
WeekOrContext(store, week) == IF week # None THEN week ELSE ContextWeek(store)

\* _fetch_games_rows followed by strip_id_fields_list
fetch_games_rows(store, week, roster_id) ==
    LET hits == SelectSeq(store.games, LAMBDA g :
                    /\ g.week = week
                    /\ (roster_id = None \/ g.roster_id_a = roster_id[1]
                            \/ g.roster_id_b = roster_id[1]))
        sorted == OrderByInt(hits, [i \in 1..Len(hits) |-> <<hits[i].matchup_id>>])
    IN  [i \in 1..Len(sorted) |->
            [week |-> sorted[i].week,
             points_a |-> sorted[i].points_a, points_b |-> sorted[i].points_b,
             team_a |-> TeamNameOf(store, sorted[i].roster_id_a),
             team_b |-> TeamNameOf(store, sorted[i].roster_id_b),
             winner |-> IF sorted[i].winner_roster_id = Some(sorted[i].roster_id_a)
                        THEN TeamNameOf(store, sorted[i].roster_id_a)
                        ELSE IF sorted[i].winner_roster_id = Some(sorted[i].roster_id_b)
                        THEN TeamNameOf(store, sorted[i].roster_id_b)
                        ELSE None]]

get_week_games(store, week) == fetch_games_rows(store, week, None)

get_team_game(store, week, roster_key) ==
    LET resolved == resolve_roster_id(store, roster_key)
        rows == fetch_games_rows(store, week, resolved.roster_id)
    IN  IF ~resolved.found \/ rows = <<>>
        THEN [found |-> FALSE, roster_key |-> roster_key, as_of_week |-> Some(week)]
        ELSE [found |-> TRUE, as_of_week |-> Some(week), game |-> rows[1]]

get_week_player_leaderboard(store, week, limit) ==
    LET hits == SelectSeq(store.player_performances, LAMBDA pp : pp.week = week)
        by_name == OrderBy(hits, [i \in 1..Len(hits) |->
                                    <<PlayerNameOf(store, hits[i].player_id)>>])
        sorted == OrderByInt(by_name, [i \in 1..Len(by_name) |-> <<0 - by_name[i].points>>])
        rows == Limited(sorted, limit)
    IN  [i \in 1..Len(rows) |->
            [rank |-> i, points |-> rows[i].points, role |-> rows[i].role,
             player_name |-> PlayerNameOf(store, rows[i].player_id),
             team_name |-> TeamNameOf(store, rows[i].roster_id)]]

\* SUM(CASE WHEN pp.role = :role THEN pp.points ELSE 0 END) of a roster's week
RolePoints(store, week, roster_id, role) ==
    LET hits == SelectSeq(store.player_performances, LAMBDA pp :
                    pp.week = week /\ pp.roster_id = roster_id /\ pp.role = role)
    IN  SumSeq([i \in 1..Len(hits) |-> hits[i].points])

get_bench_analysis(store, week, roster_key) ==
    IF roster_key # None
    THEN \* team mode
         LET TeamBench(roster_id, team_name) ==
                LET bench == SelectSeq(store.player_performances, LAMBDA pp :
                                /\ pp.week = week /\ pp.roster_id = roster_id
                                /\ pp.role = "bench")
                    sorted == OrderByInt(bench,
                                [i \in 1..Len(bench) |-> <<0 - bench[i].points>>])
                    starter_pts == RolePoints(store, week, roster_id, "starter")
                    bench_pts == RolePoints(store, week, roster_id, "bench")
                    PlayerView(pp) ==
                        [points |-> pp.points,
                         player_name |-> PlayerNameOf(store, pp.player_id)]
                IN  [found |-> TRUE, as_of_week |-> Some(week),
                     team_name |-> team_name,
                     starter_points |-> starter_pts, bench_points |-> bench_pts,
                     total_points |-> starter_pts + bench_pts,
                     bench_players |-> [i \in 1..Len(sorted) |-> PlayerView(sorted[i])]]
             Answer(resolved) ==
                IF ~resolved.found
                THEN [found |-> FALSE, roster_key |-> roster_key, as_of_week |-> Some(week)]
                ELSE TeamBench(resolved.roster_id[1], resolved.team_name)
         IN  Answer(resolve_roster_id(store, roster_key))
    ELSE \* league-wide mode: GROUP BY pp.roster_id ORDER BY bench_points DESC
         LET hits == SelectSeq(store.player_performances, LAMBDA pp : pp.week = week)
             ids == {hits[i].roster_id : i \in 1..Len(hits)}
             rosters == [k \in 1..Cardinality(ids) |->
                            CHOOSE x \in ids : Cardinality({y \in ids : y < x}) = k - 1]
             sorted == OrderByInt(rosters, [i \in 1..Len(rosters) |->
                            <<0 - RolePoints(store, week, rosters[i], "bench")>>])
         IN  [i \in 1..Len(sorted) |->
                [team_name |-> TeamNameOf(store, sorted[i]),
                 starter_points |-> RolePoints(store, week, sorted[i], "starter"),
                 bench_points |-> RolePoints(store, week, sorted[i], "bench"),
                 total_points |-> RolePoints(store, week, sorted[i], "starter")
                                    + RolePoints(store, week, sorted[i], "bench")]]

\* _group_transaction_rows: one transaction with its moves grouped by team.
GroupedTransaction(store, tx) ==
    LET moves == SelectSeq(store.transaction_moves,
                    LAMBDA tm : tm.transaction_id = tx.transaction_id)
        \* row.get("team_name") or "Unknown"
        TeamLabel(move) ==
            IF TruthyStr(TeamNameOf(store, move.roster_id))
            THEN TeamNameOf(store, move.roster_id)[1]
            ELSE <<"U", "n", "k", "n", "o", "w", "n">>
        AssetsOf(team, directions) ==
            LET own == SelectSeq(moves, LAMBDA tm :
                            TeamLabel(tm) = team /\ tm.direction \in directions)
            IN  [i \in 1..Len(own) |->
                    [asset_type |-> own[i].asset_type,
                     player_name |-> PlayerNameOf(store, own[i].player_id)]]
        teams == FirstSeen([i \in 1..Len(moves) |-> TeamLabel(moves[i])])
    IN  [week |-> tx.week, type |-> tx.type, created_ts |-> tx.created_ts,
         details |-> [i \in 1..Len(teams) |->
            [team_name |-> teams[i],
             assets_sent |-> AssetsOf(teams[i], {"drop", "pick_out"}),
             assets_received |-> AssetsOf(teams[i], {"add", "pick_in"})]]]

\* _fetch_transaction_rows and _group_transaction_rows: the transactions of
\* weeks week_from..week_to (those with a move of roster_id when one is
\* given), newest first.
fetch_transactions(store, week_from, week_to, roster_id) ==
    LET hits == SelectSeq(store.transactions, LAMBDA t :
                    /\ week_from <= t.week /\ t.week <= week_to
                    /\ (roster_id = None
                        \/ \E i \in 1..Len(store.transaction_moves) :
                              /\ store.transaction_moves[i].transaction_id = t.transaction_id
                              /\ store.transaction_moves[i].roster_id = roster_id[1]))
        sorted == OrderByInt(hits, [i \in 1..Len(hits) |->
                        <<0 - hits[i].week, 0 - hits[i].created_ts>>])
    IN  [i \in 1..Len(sorted) |-> GroupedTransaction(store, sorted[i])]

get_transactions(store, week_from, week_to) ==
    fetch_transactions(store, week_from, week_to, None)

get_team_transactions(store, week_from, week_to, roster_key) ==
    LET resolved == resolve_roster_id(store, roster_key)
    IN  IF ~resolved.found THEN [found |-> FALSE, roster_key |-> roster_key]
        ELSE [found |-> TRUE, team_name |-> resolved.team_name,
              week_from |-> week_from, week_to |-> week_to,
              transactions |-> fetch_transactions(store, week_from, week_to,
                                                  resolved.roster_id)]

\* The standings columns a query returns (roster_id stripped).
StandingView(store, row) ==
    [team_name |-> TeamNameOf(store, row.roster_id), wins |-> row.wins,
     losses |-> row.losses, ties |-> row.ties, points_for |-> row.points_for,
     points_against |-> row.points_against, rank |-> row.rank]

get_league_snapshot(store, week) ==
    IF store.leagues = <<>> THEN [found |-> FALSE]
    ELSE LET league == store.leagues[1]
             effective == WeekOrContext(store, week)
             hits == IF effective = None THEN <<>>
                     ELSE SelectSeq(store.standings, LAMBDA st : st.week = effective[1])
             \* ORDER BY s.rank ASC: NULL ranks first
             sorted == OrderByInt(hits, [i \in 1..Len(hits) |->
                            IF hits[i].rank = None THEN <<0, 0>>
                            ELSE <<1, hits[i].rank[1]>>])
         IN  [found |-> TRUE, as_of_week |-> effective,
              league |-> [playoff_week_start |-> league.playoff_week_start],
              standings |-> [i \in 1..Len(sorted) |-> StandingView(store, sorted[i])],
              games |-> IF effective = None THEN <<>>
                        ELSE get_week_games(store, effective[1]),
              transactions |-> IF effective = None THEN <<>>
                               ELSE get_transactions(store, effective[1], effective[1])]

get_standings(store, week) ==
    LET effective == WeekOrContext(store, week)
    IN  IF effective = None THEN [found |-> FALSE]
        ELSE
        LET hits == SelectSeq(store.standings, LAMBDA st : st.week = effective[1])
            \* SELECT roster_id, SUM(points) FROM matchups WHERE week <= :week
            \* GROUP BY roster_id, read with points_lookup.get(roster_id, 0.0)
            PointsLookup(roster_id) ==
                LET ms == SelectSeq(store.matchups, LAMBDA m :
                            m.week <= effective[1] /\ m.roster_id = roster_id)
                IN  SumSeq([i \in 1..Len(ms) |-> ms[i].points])
            \* ORDER BY s.rank ASC NULLS LAST, s.wins DESC, s.points_for DESC
            rows == OrderByInt(hits, [i \in 1..Len(hits) |->
                        IF hits[i].rank = None
                        THEN <<1, 0, 0 - hits[i].wins, 0 - hits[i].points_for>>
                        ELSE <<0, hits[i].rank[1], 0 - hits[i].wins,
                               0 - hits[i].points_for>>])
            needs_backfill == \E i \in 1..Len(rows) :
                                rows[i].points_for = 0 /\ rows[i].rank = None
            filled == [i \in 1..Len(rows) |->
                        IF needs_backfill /\ rows[i].points_for = 0
                        THEN [StandingView(store, rows[i]) EXCEPT
                                !.points_for = PointsLookup(rows[i].roster_id)]
                        ELSE StandingView(store, rows[i])]
            resorted == OrderByInt(filled, [i \in 1..Len(filled) |->
                            <<0 - filled[i].wins, 0 - filled[i].points_for>>])
            standings == IF \E i \in 1..Len(filled) : filled[i].rank = None
                         THEN [i \in 1..Len(resorted) |->
                                [resorted[i] EXCEPT !.rank = Some(i)]]
                         ELSE filled
        IN  IF rows = <<>> THEN [found |-> FALSE, as_of_week |-> effective]
            ELSE [found |-> TRUE, as_of_week |-> effective,
                  league_average_match |->
                      store.leagues # <<>>
                          /\ Truthy(store.leagues[1].league_average_match),
                  standings |-> standings]

\* get_team_dossier, from the team lookup on: the dossier of a resolved roster.
DossierOf(store, roster_id, week) ==
    LET team == SelectSeq(store.team_profiles, LAMBDA p : p.roster_id = roster_id)
        effective == WeekOrContext(store, week)
        standing == IF effective = None THEN <<>>
                    ELSE SelectSeq(store.standings, LAMBDA st :
                            st.roster_id = roster_id /\ st.week = effective[1])
        played == SelectSeq(store.games, LAMBDA g :
                    g.roster_id_a = roster_id \/ g.roster_id_b = roster_id)
        \* ORDER BY week DESC LIMIT 5
        recent == Limited(OrderByInt(played,
                    [i \in 1..Len(played) |-> <<0 - played[i].week>>]), 5)
        ManagerNameOf(id) ==
            LET profile == SelectSeq(store.team_profiles, LAMBDA p : p.roster_id = id)
            IN  IF profile = <<>> THEN None ELSE profile[1].manager_name
        TeamStanding(st) ==
            [wins |-> st.wins, losses |-> st.losses, ties |-> st.ties,
             points_for |-> st.points_for, points_against |-> st.points_against,
             rank |-> st.rank]
        GameView(g) ==
            [week |-> g.week, points_a |-> g.points_a, points_b |-> g.points_b,
             team_a |-> TeamNameOf(store, g.roster_id_a),
             team_b |-> TeamNameOf(store, g.roster_id_b),
             manager_a |-> ManagerNameOf(g.roster_id_a),
             manager_b |-> ManagerNameOf(g.roster_id_b)]
    IN  IF team = <<>>
        THEN [found |-> FALSE, roster_id |-> roster_id, as_of_week |-> week]
        ELSE [found |-> TRUE, as_of_week |-> effective,
              team |-> [team_name |-> team[1].team_name,
                        manager_name |-> team[1].manager_name],
              standings |-> IF standing = <<>> THEN None
                            ELSE Some(TeamStanding(standing[1])),
              recent_games |-> [i \in 1..Len(recent) |-> GameView(recent[i])]]

\* `if not resolved.get("found"): return {**resolved, "as_of_week": week}`
DossierNotResolved(resolved, week) ==
    [found |-> FALSE, resolved |-> resolved, as_of_week |-> week]

get_team_dossier(store, roster_key, week) ==
    IF ~resolve_roster_id(store, roster_key).found
    THEN DossierNotResolved(resolve_roster_id(store, roster_key), week)
    ELSE DossierOf(store, resolve_roster_id(store, roster_key).roster_id[1], week)

(***************************************************************************)
(* sleeper_league_data.py : the query methods of SleeperLeagueData         *)
(*                                                                         *)
(* A call leaves either an exception (`raised`) or a value.                *)
(***************************************************************************)
\* A method without the guard: its first use of the missing store fails.
UsedWithoutStore == [raised |-> Some("AttributeError"), value |-> None]

\* `if not self.conn: raise RuntimeError("Data not loaded. ...")`
NotLoaded == [raised |-> Some("RuntimeError"), value |-> None]
Returned(v) == [raised |-> None, value |-> Some(v)]

\* SleeperLeagueData._get_effective_week
get_effective_week(store, week) ==
    IF week # None THEN week ELSE ContextWeek(store)

(***************************************************************************)
(* The league served upstream: two rosters ("Al" of manager AL, and the    *)
(* orphan "Bo"), one matchup a week (a tie in even weeks), one waiver a    *)
(* week and a trade in week 2.                                             *)
(***************************************************************************)
Upstreams ==
    LET RawUsers == <<[user_id |-> "u1", display_name |-> Some(<<"A", "L">>),
                       username |-> None]>>
        RecordStringsA == {None, Some(<<"w", " ", "L">>), Some(<<"W", "L", "T">>)}
        RecordStringsB == {None, Some(<<"L", "W">>)}
        Settings(fpts, fpts_against) ==
            [wins |-> Some(1), losses |-> Some(1), ties |-> None,
             fpts |-> Some(fpts), fpts_against |-> Some(fpts_against), rank |-> None]
        RawRosters(record_a, record_b) ==
            <<[roster_id |-> 1, owner_id |-> Some("u1"),
               metadata |-> [team_name |-> Some(<<"A", "l">>), record |-> record_a],
               settings |-> Settings(190, 185)],
              [roster_id |-> 2, owner_id |-> None,
               metadata |-> [team_name |-> Some(<<"B", "o">>), record |-> record_b],
               settings |-> Settings(185, 190)]>>
        RawMatchups(week) ==
            <<[matchup_id |-> Some(1), roster_id |-> Some(1),
               points |-> 95 + 6 * (week % 2),
               players |-> <<<<"p", "1">>, <<"p", "2">>>>, starters |-> <<<<"p", "1">>>>,
               players_points |-> <<<<<<"p", "1">>, 10 + week>>, <<<<"p", "2">>, 3>>>>],
              [matchup_id |-> Some(1), roster_id |-> Some(2), points |-> 95,
               players |-> <<<<"p", "3">>>>, starters |-> <<<<"p", "3">>>>,
               players_points |-> <<<<<<"p", "3">>, 7>>>>],
              [matchup_id |-> None, roster_id |-> Some(2), points |-> 0,
               players |-> <<>>, starters |-> <<>>, players_points |-> <<>>]>>
        RawTransactions(week) ==
            <<[transaction_id |-> <<"w", week>>, type |-> "waiver",
               created |-> 10 * week,
               adds |-> <<<<<<"p", "2">>, 1>>>>, drops |-> <<>>]>>
            \o (IF week = 2
                THEN <<[transaction_id |-> <<"t", week>>, type |-> "trade",
                        created |-> 10 * week + 5,
                        adds |-> <<<<<<"p", "3">>, 1>>, <<<<"p", "1">>, 2>>>>,
                        drops |-> <<<<<<"p", "3">>, 2>>, <<<<"p", "1">>, 1>>>>]>>
                ELSE <<>>)
    IN  {[state |-> [week |-> state_week],
          league |-> [league_id |-> "L1", playoff_week_start |-> None,
                      settings |-> [playoff_week_start |-> playoff_week_start,
                                    league_average_match |-> league_average_match]],
          users |-> RawUsers,
          rosters |-> RawRosters(record_a, record_b),
          matchups |-> [w \in 1..MaxWeek |-> RawMatchups(w)],
          transactions |-> [w \in 1..MaxWeek |-> RawTransactions(w)]] :
            state_week \in OptWeeks, playoff_week_start \in {None, Some(2)},
            league_average_match \in {None, Some(1)},
            record_a \in RecordStringsA, record_b \in RecordStringsB}

FacadeRosterKeys == {Some(<<"a", "l">>), Some(<<" ", "2">>), Some(<<"Z">>)}
\* SleeperLeagueData.__init__: no store, no effective week; week_override
\* comes from the SleeperConfig.
InitFacade ==
    /\ upstream \in {Some(up) : up \in Upstreams}
    /\ fetched = <<>>
    /\ cache = <<>>
    /\ http_requests = <<>>
    /\ week_override \in OptWeeks
    /\ effective_week = None
    /\ conn = None
    /\ request = None
    /\ result = None
    /\ executed = <<>>
    /\ matchup_rows = <<>>
    /\ games = <<>>
    /\ raw_rosters = <<>>
    /\ roster_players = <<>>
    /\ pc = "new"

\* A load() that fetches the matchups of every week, then the transactions
\* of every week.
FetchPlanByEndpoint(effective) ==
    LET Call(endpoint) == [endpoint |-> endpoint, week |-> None]
    IN  <<Call("league"), Call("users"), Call("rosters"), Call("state"),
          Call("traded_picks"), Call("players")>>
        \o [w \in 1..effective |-> [endpoint |-> "matchups", week |-> Some(w)]]
        \o [w \in 1..effective |-> [endpoint |-> "transactions", week |-> Some(w)]]
        \o <<Call("winners_bracket"), Call("losers_bracket")>>

\* The endpoint calls of a load() that runs to its end, in order.
FetchPlan(effective) ==
    LET Call(endpoint) == [endpoint |-> endpoint, week |-> None]
    IN  <<Call("league"), Call("users"), Call("rosters"), Call("state"),
          Call("traded_picks"), Call("players")>>
        \o Flatten([w \in 1..effective |->
                <<[endpoint |-> "matchups", week |-> Some(w)],
                  [endpoint |-> "transactions", week |-> Some(w)]>>])
        \o <<Call("winners_bracket"), Call("losers_bracket")>>

\* A load() that calls the failed endpoint a second time.
FetchedWithRetry(plan, k) == SubSeq(plan, 1, k) \o <<plan[k]>>

\* The calls made when the k-th call raises: it is the last one.
FetchedUntil(plan, k) == SubSeq(plan, 1, k)

\* The store load() leaves when its k-th endpoint call raises.
PartialStore(up, override, k) ==
    LET effective == EffectiveWeek(override, ComputedWeek(up.state))
        base == [EmptyStore EXCEPT
                    !.leagues = <<normalize_league(up.league)>>,
                    !.rosters = normalize_rosters(up.rosters),
                    !.team_profiles = derive_team_profiles(up.rosters, up.users)]
        week == (k - 5) \div 2
        before == WeekLoop(base, up, week - 1)
        rows == MatchupRowsOf(up.matchups[week], week)
        pws == normalize_league(up.league).playoff_week_start
    IN  IF k <= 4 THEN EmptyStore
        ELSE IF k <= 6 THEN base
        ELSE IF k > 6 + 2 * effective
        THEN [WeekLoop(base, up, effective) EXCEPT
                !.standings = StandingsOfLoad(up, effective)]
        ELSE IF k % 2 = 1 THEN before
        ELSE [before EXCEPT
                !.matchups = @ \o rows,
                !.player_performances = @ \o PerformancesOf(up.matchups[week], week),
                !.games = @ \o GamesOfWeek(rows, pws # None /\ week >= pws[1])]

\* A load() that keeps the connection of the previous load and inserts
\* into its tables.
LoadIntoPreviousStore ==
    /\ pc \in {"new", "loaded", "failed"}
    /\ conn' = Some([table \in DOMAIN EmptyStore |->
                        (IF conn = None THEN <<>> ELSE conn[1][table])
                            \o LoadedStore(upstream[1], week_override)[table]])
    /\ effective_week' = Some(EffectiveWeek(week_override, ComputedWeek(upstream[1].state)))
    /\ fetched' = FetchPlan(effective_week'[1])
    /\ pc' = "loaded"
    /\ UNCHANGED <<week_override, upstream, cache, http_requests, callVars, gamesVars,
                   rosterVars>>

\* load(): a new in-memory connection, then every fetch and insert.  It is
\* called before the queries of a run, and again after a load, failed or not.
Load ==
    /\ pc \in {"new", "loaded", "failed"}
    /\ conn' = Some(LoadedStore(upstream[1], week_override))
    /\ effective_week' = Some(EffectiveWeek(week_override, ComputedWeek(upstream[1].state)))
    /\ fetched' = FetchPlan(effective_week'[1])
    /\ pc' = "loaded"
    /\ UNCHANGED <<week_override, upstream, cache, http_requests, callVars, gamesVars,
                   rosterVars>>

\* load() when one of its endpoint calls raises SleeperApiError: nothing in
\* load() catches it.  self.effective_week is assigned before the weekly loop.
LoadFails ==
    /\ pc \in {"new", "loaded", "failed"}
    /\ \E k \in 1..Len(FetchPlan(EffectiveWeek(week_override,
                                                ComputedWeek(upstream[1].state)))) :
            /\ fetched' = FetchedUntil(FetchPlan(EffectiveWeek(week_override,
                                            ComputedWeek(upstream[1].state))), k)
            /\ conn' = Some(PartialStore(upstream[1], week_override, k))
            /\ effective_week' =
                    IF k <= 6 THEN effective_week
                    ELSE Some(EffectiveWeek(week_override, ComputedWeek(upstream[1].state)))
    /\ request' = Some([op |-> "load"])
    /\ result' = Some([raised |-> Some("SleeperApiError"), value |-> None])
    /\ pc' = "failed"
    /\ UNCHANGED <<week_override, upstream, cache, http_requests, executed, gamesVars,
                   rosterVars>>

\* The query methods.  Each raises the RuntimeError without a store
\* (`if not self.conn`) and answers from the store otherwise: load() assigns
\* self.conn before its first fetch, so after a load() that raised the
\* store is the one it left.  pc records whether the call was refused,
\* answered after a completed load, or served after a load that raised.
\* The calls that follow a load that raised are those of get_league_snapshot,
\* get_standings and get_week_games; the guard of the other methods is the
\* same statement.
QueryLabel(before, out) ==
    IF out.raised # None THEN "refused"
    ELSE IF before = "failed" THEN "served"
    ELSE "answered"

GetLeagueSnapshot ==
    \E week \in OptWeeks :
        LET out == IF conn = None THEN NotLoaded
                   ELSE Returned(get_league_snapshot(conn[1], week))
        IN  /\ pc \in {"new", "loaded", "failed"}
            /\ request' = Some([op |-> "get_league_snapshot", week |-> week])
            /\ result' = Some(out)
            /\ pc' = QueryLabel(pc, out)
            /\ UNCHANGED <<conn, executed, facadeVars, clientVars, gamesVars, rosterVars>>

GetStandings ==
    \E week \in OptWeeks :
        LET out == IF conn = None THEN NotLoaded
                   ELSE Returned(get_standings(conn[1], week))
        IN  /\ pc \in {"new", "loaded", "failed"}
            /\ request' = Some([op |-> "get_standings", week |-> week])
            /\ result' = Some(out)
            /\ pc' = QueryLabel(pc, out)
            /\ UNCHANGED <<conn, executed, facadeVars, clientVars, gamesVars, rosterVars>>

GetTeamDossier ==
    \E roster_key \in FacadeRosterKeys, week \in OptWeeks :
        LET out == IF conn = None THEN NotLoaded
                   ELSE Returned(get_team_dossier(conn[1], roster_key, week))
        IN  /\ pc \in {"new", "loaded"}
            /\ request' = Some([op |-> "get_team_dossier", roster_key |-> roster_key,
                                week |-> week])
            /\ result' = Some(out)
            /\ pc' = QueryLabel(pc, out)
            /\ UNCHANGED <<conn, executed, facadeVars, clientVars, gamesVars, rosterVars>>

GetWeekGames ==
    \E week \in OptWeeks :
        LET effective == get_effective_week(conn[1], week)
            out == IF conn = None THEN NotLoaded
                   ELSE IF effective = None THEN Returned(<<>>)
                   ELSE Returned(get_week_games(conn[1], effective[1]))
        IN  /\ pc \in {"new", "loaded", "failed"}
            /\ request' = Some([op |-> "get_week_games", week |-> week])
            /\ result' = Some(out)
            /\ pc' = QueryLabel(pc, out)
            /\ UNCHANGED <<conn, executed, facadeVars, clientVars, gamesVars, rosterVars>>

GetTeamGame ==
    \E roster_key \in FacadeRosterKeys, week \in OptWeeks :
        LET effective == get_effective_week(conn[1], week)
            out == IF conn = None THEN NotLoaded
                   ELSE IF effective = None
                   THEN Returned([found |-> FALSE, roster_key |-> roster_key])
                   ELSE Returned(get_team_game(conn[1], effective[1], roster_key))
        IN  /\ pc \in {"new", "loaded"}
            /\ request' = Some([op |-> "get_team_game", roster_key |-> roster_key,
                                week |-> week])
            /\ result' = Some(out)
            /\ pc' = QueryLabel(pc, out)
            /\ UNCHANGED <<conn, executed, facadeVars, clientVars, gamesVars, rosterVars>>

GetWeekPlayerLeaderboard ==
    \E week \in OptWeeks, limit \in {1, 10} :
        LET effective == get_effective_week(conn[1], week)
            out == IF conn = None THEN NotLoaded
                   ELSE IF effective = None THEN Returned(<<>>)
                   ELSE Returned(get_week_player_leaderboard(conn[1], effective[1], limit))
        IN  /\ pc \in {"new", "loaded"}
            /\ request' = Some([op |-> "get_week_player_leaderboard", week |-> week,
                                limit |-> limit])
            /\ result' = Some(out)
            /\ pc' = QueryLabel(pc, out)
            /\ UNCHANGED <<conn, executed, facadeVars, clientVars, gamesVars, rosterVars>>

GetBenchAnalysis ==
    \E roster_key \in FacadeRosterKeys \cup {None}, week \in OptWeeks :
        LET effective == get_effective_week(conn[1], week)
            out == IF conn = None THEN NotLoaded
                   ELSE IF effective = None
                   THEN IF roster_key # None
                        THEN Returned([found |-> FALSE, roster_key |-> roster_key])
                        ELSE Returned(<<>>)
                   ELSE Returned(get_bench_analysis(conn[1], effective[1], roster_key))
        IN  /\ pc \in {"new", "loaded"}
            /\ request' = Some([op |-> "get_bench_analysis", roster_key |-> roster_key,
                                week |-> week])
            /\ result' = Some(out)
            /\ pc' = QueryLabel(pc, out)
            /\ UNCHANGED <<conn, executed, facadeVars, clientVars, gamesVars, rosterVars>>

GetWeekTransactions ==
    \E week \in OptWeeks :
        LET effective == get_effective_week(conn[1], week)
            out == IF conn = None THEN NotLoaded
                   ELSE IF effective = None THEN Returned(<<>>)
                   ELSE Returned(get_transactions(conn[1], effective[1], effective[1]))
        IN  /\ pc \in {"new", "loaded"}
            /\ request' = Some([op |-> "get_week_transactions", week |-> week])
            /\ result' = Some(out)
            /\ pc' = QueryLabel(pc, out)
            /\ UNCHANGED <<conn, executed, facadeVars, clientVars, gamesVars, rosterVars>>

GetTeamWeekTransactions ==
    \E roster_key \in FacadeRosterKeys, week_from \in OptWeeks, week_to \in OptWeeks :
        LET effective == get_effective_week(conn[1], None)
            resolved_from == IF week_from # None THEN week_from ELSE effective
            resolved_to == IF week_to # None THEN week_to ELSE resolved_from
            out == IF conn = None THEN NotLoaded
                   ELSE IF resolved_from = None
                   THEN Returned([found |-> FALSE, error |-> "No effective week"])
                   ELSE Returned(get_team_transactions(conn[1], resolved_from[1],
                                    resolved_to[1], roster_key))
        IN  /\ pc \in {"new", "loaded"}
            /\ request' = Some([op |-> "get_team_week_transactions",
                                roster_key |-> roster_key,
                                week_from |-> week_from, week_to |-> week_to])
            /\ result' = Some(out)
            /\ pc' = QueryLabel(pc, out)
            /\ UNCHANGED <<conn, executed, facadeVars, clientVars, gamesVars, rosterVars>>

\* save_to_file: the backup copies the store to the file and returns the
\* path; the file is outside the state.
SaveToFile ==
    \E output_path \in {<<"o", "u", "t">>, <<"d", "/", "o">>} :
        LET out == IF conn = None THEN NotLoaded ELSE Returned(output_path)
        IN  /\ pc \in {"new", "loaded"}
            /\ request' = Some([op |-> "save_to_file", output_path |-> output_path])
            /\ result' = Some(out)
            /\ pc' = IF out.raised = None THEN "saved" ELSE "refused"
            /\ UNCHANGED <<conn, executed, facadeVars, clientVars, gamesVars, rosterVars>>

\* SleeperLeagueData.run_sql: the guard, then run_sql on self.conn.  The
\* rows a statement returns are not carried: the value of an answered call
\* is the statement that was executed.
RunSqlQuery ==
    \E limit \in Limits :
    \E query \in {SelectWord \o <<" ", "x">>, <<"(">> \o SelectWord \o <<";">>,
                  SelectWord \o <<"_", "c", "r", "e", "a", "t", "e">>,
                  SelectWord \o <<";", "D", "R", "O", "P">>,
                  SelectWord \o <<" ", "D", "R", "O", "P">>,
                  <<"D", "R", "O", "P">>, <<"d", "e", "l", "e", "t", "e", " ", "x">>,
                  <<" ", "c", "r", "e", "a", "t", "e">>} :
        LET guarded == conn = None
            out == RunSqlOutcome(IF guarded THEN EmptyStore ELSE conn[1], query, limit)
        IN  /\ pc \in {"new", "loaded"}
            /\ request' = Some([op |-> "run_sql", query |-> query, limit |-> limit])
            /\ result' = Some(IF guarded THEN NotLoaded
                               ELSE IF out.raised = None THEN Returned(out.sent)
                               ELSE [raised |-> out.raised, value |-> None])
            /\ executed' = IF guarded THEN executed ELSE executed \o out.sent
            /\ conn' = IF guarded THEN conn ELSE Some(out.store)
            /\ pc' = IF guarded THEN "refused" ELSE "ran"
            /\ UNCHANGED <<facadeVars, clientVars, gamesVars, rosterVars>>

\* The other public methods, up to their first statement: the same guard.
\* What they answer from a store is not modelled.
QueryBeforeLoad ==
    \E op \in {"get_team_schedule", "get_week_games_with_players",
               "get_team_game_with_players", "get_transactions",
               "get_team_transactions", "get_player_summary",
               "get_player_weekly_log", "get_player_weekly_log_range",
               "get_roster_current", "get_roster_snapshot",
               "get_playoff_bracket", "get_team_playoff_path"} :
        /\ pc = "new"
        /\ conn = None
        /\ request' = Some([op |-> op])
        /\ result' = Some(NotLoaded)
        /\ pc' = "refused"
        /\ UNCHANGED <<conn, executed, facadeVars, clientVars, gamesVars, rosterVars>>

NextFacade ==
    \/ Load
    \/ LoadFails
    \/ SaveToFile
    \/ RunSqlQuery
    \/ QueryBeforeLoad
    \/ GetLeagueSnapshot
    \/ GetStandings
    \/ GetTeamDossier
    \/ GetWeekGames
    \/ GetTeamGame
    \/ GetWeekPlayerLeaderboard
    \/ GetBenchAnalysis
    \/ GetWeekTransactions
    \/ GetTeamWeekTransactions

SpecFacade == InitFacade /\ [][NextFacade]_vars

\* load() ran to its end: the store is there and no endpoint call raised.
LoadCompleted == conn # None /\ pc \notin {"failed", "served"}

\* The week the upstream state endpoint computed, 0 when it names none.
UpstreamWeek ==
    IF upstream[1].state.week = None THEN 0 ELSE upstream[1].state.week[1]

\* C9: after load() the effective week is the configured override whenever
\* one is set, else the week computed upstream, else 0, and the stored
\* SeasonContext row is (computed_week, override_week, effective_week).
C9_EffectiveWeekFromOverride ==
    LoadCompleted =>
        LET expected == IF week_override # None THEN week_override[1] ELSE UpstreamWeek
        IN  /\ effective_week = Some(expected)
            /\ conn[1].season_context =
                <<[computed_week |-> UpstreamWeek, override_week |-> week_override,
                   effective_week |-> expected]>>

StoredWeek == conn[1].season_context[1].effective_week
Answer == result[1].value[1]
AskedWeek ==
    LET week == IF request[1].op = "get_team_week_transactions"
                THEN request[1].week_from ELSE request[1].week
    IN  IF week # None THEN week[1] ELSE StoredWeek
AskedWeekTo == IF request[1].week_to # None THEN request[1].week_to[1] ELSE AskedWeek

RowsOfWeek(table, week) == {i \in 1..Len(table) : table[i].week = week}
AllOfWeek(rows, week) == \A i \in 1..Len(rows) : rows[i].week = week

ReturnsList ==
    \/ request[1].op \in {"get_week_games", "get_week_player_leaderboard",
                          "get_week_transactions"}
    \/ request[1].op = "get_bench_analysis" /\ request[1].roster_key = None

\* C10: a query answered after a completed load serves the week it was
\* given, and the effective_week of the SeasonContext row when it was given
\* none: the rows it returns are those of that week, and as_of_week, where
\* the result carries it, is that week.
C10_OmittedWeekIsEffectiveWeek ==
    pc = "answered" =>
        LET op == request[1].op
            store == conn[1]
        IN  /\ (~ReturnsList /\ "as_of_week" \in DOMAIN Answer)
                    => Answer.as_of_week = Some(AskedWeek)
            /\ op = "get_week_games" =>
                    /\ AllOfWeek(Answer, AskedWeek)
                    /\ Len(Answer) = Cardinality(RowsOfWeek(store.games, AskedWeek))
            /\ op = "get_week_transactions" =>
                    /\ AllOfWeek(Answer, AskedWeek)
                    /\ Len(Answer) = Cardinality(RowsOfWeek(store.transactions, AskedWeek))
            /\ op = "get_week_player_leaderboard" =>
                    LET n == Cardinality(RowsOfWeek(store.player_performances, AskedWeek))
                    IN  Len(Answer) = IF n < request[1].limit THEN n ELSE request[1].limit
            /\ op = "get_league_snapshot" =>
                    /\ Answer.found
                    /\ AllOfWeek(Answer.games, AskedWeek)
                    /\ AllOfWeek(Answer.transactions, AskedWeek)
                    /\ Len(Answer.games) = Cardinality(RowsOfWeek(store.games, AskedWeek))
                    /\ Len(Answer.standings)
                            = Cardinality(RowsOfWeek(store.standings, AskedWeek))
            /\ op = "get_standings" =>
                    /\ Answer.found <=> RowsOfWeek(store.standings, AskedWeek) # {}
                    /\ Answer.found => Len(Answer.standings)
                            = Cardinality(RowsOfWeek(store.standings, AskedWeek))
            /\ (op = "get_bench_analysis" /\ ReturnsList) =>
                    Len(Answer) = Cardinality({store.player_performances[i].roster_id :
                                    i \in RowsOfWeek(store.player_performances, AskedWeek)})
            /\ (op = "get_bench_analysis" /\ ~ReturnsList /\ Answer.found) =>
                    (Answer.total_points > 0
                        <=> RowsOfWeek(store.player_performances, AskedWeek) # {})
            /\ (op = "get_team_game" /\ Answer.found) => Answer.game.week = AskedWeek
            /\ (op = "get_team_dossier" /\ Answer.found) =>
                    (Answer.standings # None
                        <=> \E i \in RowsOfWeek(store.standings, AskedWeek) :
                              \E j \in 1..Len(store.team_profiles) :
                                /\ store.team_profiles[j].roster_id
                                        = store.standings[i].roster_id
                                /\ store.team_profiles[j].team_name
                                        = Answer.team.team_name)
            /\ (op = "get_team_week_transactions" /\ Answer.found) =>
                    /\ Answer.week_from = AskedWeek
                    /\ Answer.week_to = AskedWeekTo
                    /\ \A i \in 1..Len(Answer.transactions) :
                            /\ AskedWeek <= Answer.transactions[i].week
                            /\ Answer.transactions[i].week <= AskedWeekTo

\* The decoded record-string rows load() stored for the league (none when
\* the effective week is 0), and the playoff_week_start of its League row.
DecodedRows ==
    IF conn[1].season_context[1].effective_week > 0
    THEN RecordStandings(upstream[1].rosters, CharsPerWeek(upstream[1].league),
                         normalize_league(upstream[1].league).playoff_week_start)
    ELSE <<>>
StoredPlayoffStart == conn[1].leagues[1].playoff_week_start

\* C11: in the store load() built, a (week, roster_id) holds at most one
\* standings row, every decoded record-string row is stored as decoded, and
\* any other (live-snapshot) row is of a week beyond every decoded week and
\* before playoff_week_start.
C11_LiveSnapshotBeyondDecoded ==
    LoadCompleted =>
        LET rows == conn[1].standings
        IN  /\ \A i, j \in 1..Len(rows) :
                    (rows[i].week = rows[j].week /\ rows[i].roster_id = rows[j].roster_id)
                        => i = j
            /\ \A d \in 1..Len(DecodedRows) : InSeq(rows, DecodedRows[d])
            /\ \A i \in 1..Len(rows) :
                    ~InSeq(DecodedRows, rows[i]) =>
                        /\ \A d \in 1..Len(DecodedRows) : rows[i].week > DecodedRows[d].week
                        /\ StoredPlayoffStart # None => rows[i].week < StoredPlayoffStart[1]

(***************************************************************************)
(* sleeper_league_data.py : load()._record_string_to_weeks, called twice   *)
(* on one record string                                                    *)
(***************************************************************************)
MaxRecordLen == 4
RecordInputs ==
    LET RecordChars == {"W", "L", "T", "w", " ", "x"}
    IN  [record_string : {None} \cup {Some(str) : str \in SeqUpTo(RecordChars, MaxRecordLen)},
         chars_per_week : {1, 2}]

InitRecord ==
    /\ request \in {Some(input) : input \in RecordInputs}
    /\ result = None
    /\ executed = <<>>
    /\ conn = None
    /\ matchup_rows = <<>>
    /\ games = <<>>
    /\ raw_rosters = <<>>
    /\ roster_players = <<>>
    /\ week_override = None
    /\ effective_week = None
    /\ upstream = None
    /\ fetched = <<>>
    /\ cache = <<>>
    /\ http_requests = <<>>
    /\ pc = "input"

\* One call of the closure; its counters are locals, so a call starts from 0.
DecodeRecord ==
    /\ pc \in {"input", "decoded"}
    /\ result' = Some(record_string_to_weeks(request[1].record_string,
                                             request[1].chars_per_week))
    /\ pc' = IF pc = "input" THEN "decoded" ELSE "redecoded"
    /\ UNCHANGED <<request, executed, conn, gamesVars, rosterVars, facadeVars, clientVars>>

NextRecord == DecodeRecord

SpecRecord == InitRecord /\ [][NextRecord]_vars

MaxRounds == 2
MaxTraded == 2
\* `for season_offset in range(1, 4)`
SeedSeasons == 3

JsonStr(v) == [str |-> v]
JsonInt(v) == [int |-> v]
\* str(value) and int(value) of a JSON string or non-negative number
PyStr(x) == IF "str" \in DOMAIN x THEN x.str ELSE ToStr(x.int)
PyInt(x) == IF "int" \in DOMAIN x THEN x.int ELSE ToInt(Strip(x.str))

\* int(base_season): surrounding whitespace is ignored; None stands for the
\* ValueError of a text that is not a number.
ParseInt(str) == IF IsDigit(Strip(str)) THEN Some(ToInt(Strip(str))) ELSE None

\* A seed that leaves the rounds out of account: one pick per season and roster.
seed_draft_picks_one_round(rosters, base_season, draft_rounds) ==
    IF ParseInt(base_season) = None THEN <<>>
    ELSE IF draft_rounds <= 0 \/ rosters = <<>> THEN <<>>
    ELSE Flatten([season_offset \in 1..SeedSeasons |->
            [r \in 1..Len(rosters) |->
                    [season |-> ToStr(ParseInt(base_season)[1] + season_offset),
                     round |-> 1,
                     original_roster_id |-> rosters[r].roster_id,
                     current_roster_id |-> rosters[r].roster_id,
                     pick_id |-> None, source |-> "seed"]]])

seed_draft_picks(rosters, base_season, draft_rounds) ==
    IF ParseInt(base_season) = None THEN <<>>
    ELSE IF draft_rounds <= 0 \/ rosters = <<>> THEN <<>>
    ELSE Flatten([season_offset \in 1..SeedSeasons |->
            Flatten([r \in 1..Len(rosters) |->
                [round_value \in 1..draft_rounds |->
                    [season |-> ToStr(ParseInt(base_season)[1] + season_offset),
                     round |-> round_value,
                     original_roster_id |-> rosters[r].roster_id,
                     current_roster_id |-> rosters[r].roster_id,
                     pick_id |-> None, source |-> "seed"]]])])

\* The four fields apply_traded_picks reads are all present.
ValidTradedPick(pick) ==
    /\ pick.season # None /\ pick.round # None
    /\ pick.roster_id # None /\ pick.owner_id # None

\* WHERE season = :season AND round = :round AND original_roster_id = ...
TradedPickMatches(row, pick) ==
    /\ row.season = PyStr(pick.season[1])
    /\ row.round = PyInt(pick.round[1])
    /\ row.original_roster_id = PyInt(pick.roster_id[1])

\* An update that names the pick by season and round only.
ApplyTradedPickAnyRoster(draft_picks, pick) ==
    IF ~ValidTradedPick(pick) THEN draft_picks
    ELSE [i \in 1..Len(draft_picks) |->
            IF /\ draft_picks[i].season = PyStr(pick.season[1])
               /\ draft_picks[i].round = PyInt(pick.round[1])
            THEN [draft_picks[i] EXCEPT !.current_roster_id = PyInt(pick.owner_id[1])]
            ELSE draft_picks[i]]

\* One iteration of the loop of apply_traded_picks: the UPDATE of one record.
ApplyTradedPick(draft_picks, pick) ==
    IF ~ValidTradedPick(pick) THEN draft_picks
    ELSE [i \in 1..Len(draft_picks) |->
            IF TradedPickMatches(draft_picks[i], pick)
            THEN [draft_picks[i] EXCEPT !.current_roster_id = PyInt(pick.owner_id[1])]
            ELSE draft_picks[i]]

\* An application in which the first record naming a pick decides its owner.
RECURSIVE apply_traded_picks_first_wins(_, _)
apply_traded_picks_first_wins(draft_picks, raw_traded_picks) ==
    IF raw_traded_picks = <<>> THEN draft_picks
    ELSE ApplyTradedPick(apply_traded_picks_first_wins(draft_picks, Tail(raw_traded_picks)),
                         Head(raw_traded_picks))

RECURSIVE apply_traded_picks(_, _)
apply_traded_picks(draft_picks, raw_traded_picks) ==
    IF raw_traded_picks = <<>> THEN draft_picks
    ELSE apply_traded_picks(ApplyTradedPick(draft_picks, Head(raw_traded_picks)),
                            Tail(raw_traded_picks))

\* The arguments: up to two rosters with distinct ids, a season text, the
\* draft_rounds setting, and the traded-pick records (a complete record in
\* some JSON typing, or one with a field missing).
PickInputs ==
    LET PickRosters ==
            {<<>>, <<[roster_id |-> 1]>>, <<[roster_id |-> 1], [roster_id |-> 2]>>,
             <<[roster_id |-> 2], [roster_id |-> 1]>>}
        BaseSeasons == {<<"2", "4">>, <<" ", "7">>, <<>>, <<"2", "x">>}
        CompleteTradedPicks ==
            [season : {Some(JsonStr(<<"2", "5">>)), Some(JsonInt(26))},
             round : {Some(JsonInt(1)), Some(JsonStr(<<"2">>))},
             roster_id : {Some(JsonInt(1)), Some(JsonInt(3))},
             owner_id : {Some(JsonInt(2)), Some(JsonStr(<<"1">>))}]
        full == [season |-> Some(JsonStr(<<"2", "5">>)), round |-> Some(JsonInt(1)),
                 roster_id |-> Some(JsonInt(1)), owner_id |-> Some(JsonInt(2))]
        TradedPickRecords ==
            CompleteTradedPicks
                \cup {[full EXCEPT ![f] = None] :
                            f \in {"season", "round", "roster_id", "owner_id"}}
    IN  [rosters : PickRosters, base_season : BaseSeasons,
         draft_rounds : (0 - 1)..MaxRounds,
         raw_traded_picks : SeqUpTo(TradedPickRecords, MaxTraded)]

InitPicks ==
    /\ request \in {Some(input) : input \in PickInputs}
    /\ conn = Some([EmptyStore EXCEPT !.rosters = request[1].rosters])
    /\ result = None
    /\ executed = <<>>
    /\ matchup_rows = <<>>
    /\ games = <<>>
    /\ raw_rosters = <<>>
    /\ roster_players = <<>>
    /\ week_override = None
    /\ effective_week = None
    /\ upstream = None
    /\ fetched = <<>>
    /\ cache = <<>>
    /\ http_requests = <<>>
    /\ pc = "input"

\* load(): `draft_picks = seed_draft_picks(...)`, inserted when not empty.
SeedDraftPicks ==
    /\ pc = "input"
    /\ result' = Some(seed_draft_picks(request[1].rosters, request[1].base_season,
                                       request[1].draft_rounds))
    /\ conn' = Some([conn[1] EXCEPT !.draft_picks = @ \o result'[1]])
    /\ pc' = "seeded"
    /\ UNCHANGED <<request, executed, gamesVars, rosterVars, facadeVars, clientVars>>

\* load(): `apply_traded_picks(self.conn, raw_traded_picks, self.league_id)`
ApplyTradedPicks ==
    /\ pc = "seeded"
    /\ conn' = Some([conn[1] EXCEPT
                        !.draft_picks = apply_traded_picks(@, request[1].raw_traded_picks)])
    /\ pc' = "applied"
    /\ UNCHANGED <<request, result, executed, gamesVars, rosterVars, facadeVars, clientVars>>

NextPicks ==
    \/ SeedDraftPicks
    \/ ApplyTradedPicks

SpecPicks == InitPicks /\ [][NextPicks]_vars

PickKey(row) == <<row.season, row.round, row.original_roster_id>>

\* The picks are one per round 1..R and roster, for each of the seasons
\* in `seasons`, each owned by its original roster and marked "seed".
SeededFor(picks, seasons, rosters, R) ==
    /\ Len(picks) = 3 * R * Len(rosters)
    /\ \A i, j \in 1..Len(picks) : PickKey(picks[i]) = PickKey(picks[j]) => i = j
    /\ \A i \in 1..Len(picks) :
            /\ picks[i].current_roster_id = picks[i].original_roster_id
            /\ picks[i].source = "seed"
            /\ picks[i].round \in 1..R
            /\ picks[i].season \in seasons
            /\ \E r \in 1..Len(rosters) : rosters[r].roster_id = picks[i].original_roster_id

\* C13: seed_draft_picks with M rosters and draft_rounds = R > 0 returns
\* exactly 3*R*M picks, one per future season, round 1..R and roster, with
\* pairwise distinct keys, owned by the original roster and marked "seed";
\* it returns no picks when R <= 0 or there are no rosters.
C13_SeedCount ==
    pc = "seeded" =>
        LET input == request[1]
            base == ParseInt(input.base_season)
            seasons == IF base = None THEN {}
                       ELSE {ToStr(base[1] + k) : k \in 1..3}
        IN  IF input.draft_rounds > 0 /\ input.rosters # <<>>
            THEN SeededFor(result[1], seasons, input.rosters, input.draft_rounds)
            ELSE result[1] = <<>>

\* C13 (amended): the 3*R*M picks are returned when, in addition, the
\* base season is the text of an integer; no picks are returned when R <= 0,
\* there are no rosters, or the base season is not such a text.
C13_SeedCountNumericSeason ==
    pc = "seeded" =>
        LET input == request[1]
            base == ParseInt(input.base_season)
        IN  IF input.draft_rounds > 0 /\ input.rosters # <<>> /\ base # None
            THEN SeededFor(result[1], {ToStr(base[1] + k) : k \in 1..3},
                           input.rosters, input.draft_rounds)
            ELSE result[1] = <<>>

\* Two rosters and two rounds seeded from season "24": 12 picks.
C13_Witness ==
    /\ pc = "seeded"
    /\ request[1].draft_rounds = 2
    /\ Len(request[1].rosters) = 2
    /\ Len(result[1]) = 12
    /\ result[1][12].season = <<"2", "7">>

\* C14: applying one traded-pick record leaves the number of draft_picks
\* rows, every key column and every row whose key does not match as they
\* were; the one row whose (season, round, original_roster_id) matches gets
\* the record's owner as current_roster_id, and a record missing season,
\* round, roster_id or owner_id changes nothing.
C14_TradeChangesOnlyOwner ==
    [][(pc = "seeded" /\ pc' = "applied" /\ Len(request[1].raw_traded_picks) = 1) =>
        LET before == conn[1].draft_picks
            after == conn'[1].draft_picks
            pick == request[1].raw_traded_picks[1]
        IN  /\ Len(after) = Len(before)
            /\ [conn'[1] EXCEPT !.draft_picks = before] = conn[1]
            /\ \A i \in 1..Len(before) :
                    /\ [after[i] EXCEPT !.current_roster_id = before[i].current_roster_id]
                            = before[i]
                    /\ IF ValidTradedPick(pick) /\ TradedPickMatches(before[i], pick)
                       THEN after[i].current_roster_id = PyInt(pick.owner_id[1])
                       ELSE after[i] = before[i]
            /\ Cardinality({i \in 1..Len(before) : after[i] # before[i]}) <= 1]_vars

\* One complete record was applied and moved a seeded pick to another roster.
C14_Witness ==
    /\ pc = "applied"
    /\ Len(request[1].raw_traded_picks) = 1
    /\ ValidTradedPick(request[1].raw_traded_picks[1])
    /\ \E i \in 1..Len(conn[1].draft_picks) :
            /\ conn[1].draft_picks[i].current_roster_id
                    # conn[1].draft_picks[i].original_roster_id
            /\ conn[1].draft_picks[i].round = 2

\* The positions of the valid records of the list that name the pick `row`.
MatchingRecords(row, raw_traded_picks) ==
    {k \in 1..Len(raw_traded_picks) :
        /\ ValidTradedPick(raw_traded_picks[k])
        /\ TradedPickMatches(row, raw_traded_picks[k])}

SetMax(S) == CHOOSE n \in S : \A m \in S : m <= n

\* C28: after the whole list of traded-pick records is applied, the
\* draft_picks rows are the seeded picks, none added; each pick's
\* current_roster_id is the owner_id of the last valid record of the list
\* whose (season, round, roster_id) is the pick's key, and the pick's
\* original_roster_id when no valid record names it.
C28_LastRecordWins ==
    pc = "applied" =>
        LET seeded == result[1]
            after == conn[1].draft_picks
            records == request[1].raw_traded_picks
        IN  /\ Len(after) = Len(seeded)
            /\ \A i \in 1..Len(seeded) :
                    LET hits == MatchingRecords(seeded[i], records)
                    IN  /\ PickKey(after[i]) = PickKey(seeded[i])
                        /\ after[i].current_roster_id =
                                IF hits = {} THEN seeded[i].original_roster_id
                                ELSE PyInt(records[SetMax(hits)].owner_id[1])

\* Two valid records named the same seeded pick with different owners, and
\* the pick went to the owner of the second.
C28_Witness ==
    /\ pc = "applied"
    /\ \E i \in 1..Len(result[1]) :
            /\ MatchingRecords(result[1][i], request[1].raw_traded_picks) = {1, 2}
            /\ PyInt(request[1].raw_traded_picks[1].owner_id[1])
                    # PyInt(request[1].raw_traded_picks[2].owner_id[1])
            /\ conn[1].draft_picks[i].current_roster_id
                    = PyInt(request[1].raw_traded_picks[2].owner_id[1])
            /\ conn[1].draft_picks[i].current_roster_id
                    # conn[1].draft_picks[i].original_roster_id


(***************************************************************************)
(* normalize/*.py : the normalizers on a batch with incomplete records     *)
(*                                                                         *)
(* A raw record is a JSON object: a function from the keys it has.         *)
(* `raw.get(key)` is an Optional, `raw[key]` raises KeyError when the key  *)
(* is absent.                                                              *)
(***************************************************************************)
MaxBatch == 2

Get(raw, key) == IF key \in DOMAIN raw THEN Some(raw[key]) ELSE None

\* normalize_bracket: an entry without "r" or "m" is skipped.
normalize_bracket(raw_bracket) ==
    LET kept == SelectSeq(raw_bracket,
                    LAMBDA entry : Get(entry, "r") # None /\ Get(entry, "m") # None)
    IN  [i \in 1..Len(kept) |->
            [round |-> kept[i].r, matchup_id |-> kept[i].m,
             t1_roster_id |-> Get(kept[i], "t1"), t2_roster_id |-> Get(kept[i], "t2")]]

\* normalize_users, of records that have "user_id"
normalize_users(raw_users) ==
    [i \in 1..Len(raw_users) |->
        [user_id |-> raw_users[i].user_id,
         display_name |->
            IF TruthyStr(Get(raw_users[i], "display_name")) THEN raw_users[i].display_name
            ELSE IF TruthyStr(Get(raw_users[i], "username")) THEN raw_users[i].username
            ELSE <<>>]]

\* What a call of one normalizer on a batch leaves: the rows, or the
\* KeyError of the first `raw[key]` on a record without the key.
NormalizerOutcome(normalizer, batch) ==
    LET Indexed(key, rows) ==
            IF \A i \in 1..Len(batch) : key \in DOMAIN batch[i]
            THEN Returned(rows)
            ELSE [raised |-> Some("KeyError"), value |-> None]
        \* the raw_row.get(...) reads of normalize_matchups
        matchup_gets == [i \in 1..Len(batch) |->
                            [matchup_id |-> Get(batch[i], "matchup_id"),
                             roster_id |-> Get(batch[i], "roster_id"),
                             points |-> batch[i].points]]
    IN  CASE normalizer = "normalize_matchups" -> Returned(MatchupRowsOf(matchup_gets, 1))
          [] normalizer = "normalize_bracket" -> Returned(normalize_bracket(batch))
          [] normalizer = "normalize_transactions" ->
                Indexed("transaction_id", normalize_transactions(batch, 1))
          [] normalizer = "normalize_transaction_moves" ->
                Indexed("transaction_id", normalize_transaction_moves(batch))
          [] normalizer = "normalize_rosters" ->
                Indexed("roster_id", normalize_rosters(batch))
          [] normalizer = "normalize_roster_players" ->
                Indexed("roster_id", normalize_roster_players(batch))
          [] normalizer = "normalize_users" ->
                Indexed("user_id", normalize_users(batch))

\* The keys a normalizer needs of every record.
RequiredKeys(normalizer) ==
    CASE normalizer = "normalize_matchups" -> {"matchup_id", "roster_id"}
      [] normalizer = "normalize_bracket" -> {"r", "m"}
      [] normalizer \in {"normalize_transactions", "normalize_transaction_moves"} ->
            {"transaction_id"}
      [] normalizer \in {"normalize_rosters", "normalize_roster_players"} -> {"roster_id"}
      [] normalizer = "normalize_users" -> {"user_id"}

\* Two complete records of the payload each normalizer reads, and each of
\* them with one required key left out.
RawRecords(normalizer) ==
    LET complete ==
            CASE normalizer = "normalize_matchups" ->
                    {[matchup_id |-> 1, roster_id |-> r, points |-> 90 + r] : r \in 1..2}
              [] normalizer = "normalize_bracket" ->
                    {[r |-> 1, m |-> m, t1 |-> 1, t2 |-> 2] : m \in 1..2}
              [] normalizer \in {"normalize_transactions", "normalize_transaction_moves"} ->
                    {[transaction_id |-> <<"t", n>>, type |-> "waiver", created |-> n,
                      adds |-> <<<<<<"p", "2">>, n>>>>, drops |-> <<>>] : n \in 1..2}
              [] normalizer \in {"normalize_rosters", "normalize_roster_players"} ->
                    {[roster_id |-> r, players |-> <<"p1">>, starters |-> {"p1"},
                      taxi |-> {}, reserve |-> {}, ir |-> {"p2"}] : r \in 1..2}
              [] normalizer = "normalize_users" ->
                    {[user_id |-> "u1", display_name |-> <<"A", "L">>],
                     [user_id |-> "u2", username |-> <<"b">>]}
    IN  complete \cup {[k \in DOMAIN raw \ {key} |-> raw[k]] :
                            raw \in complete, key \in RequiredKeys(normalizer)}

Normalizers ==
    {"normalize_matchups", "normalize_bracket", "normalize_transactions",
     "normalize_transaction_moves", "normalize_rosters", "normalize_roster_players",
     "normalize_users"}

InitNormalize ==
    /\ request = None
    /\ result = None
    /\ executed = <<>>
    /\ conn = None
    /\ matchup_rows = <<>>
    /\ games = <<>>
    /\ raw_rosters = <<>>
    /\ roster_players = <<>>
    /\ week_override = None
    /\ effective_week = None
    /\ upstream = None
    /\ fetched = <<>>
    /\ cache = <<>>
    /\ http_requests = <<>>
    /\ pc = "input"

\* One call of a normalizer on one batch.
Normalize ==
    /\ pc = "input"
    /\ \E normalizer \in Normalizers :
         \E batch \in SeqUpTo(RawRecords(normalizer), MaxBatch) :
            /\ request' = Some([normalizer |-> normalizer, batch |-> batch])
            /\ result' = Some(NormalizerOutcome(normalizer, batch))
    /\ pc' = "normalized"
    /\ UNCHANGED <<executed, conn, gamesVars, rosterVars, facadeVars, clientVars>>

NextNormalize == Normalize

SpecNormalize == InitNormalize /\ [][NextNormalize]_vars

\* C15: every normalizer, given a batch in which some record lacks a
\* required key, returns (without raising) exactly the rows of the batch
\* with the incomplete records left out.
C15_IncompleteRecordSkipped ==
    pc = "normalized" =>
        LET normalizer == request[1].normalizer
            complete == SelectSeq(request[1].batch,
                            LAMBDA raw : RequiredKeys(normalizer) \subseteq DOMAIN raw)
        IN  /\ result[1].raised = None
            /\ result[1] = NormalizerOutcome(normalizer, complete)

\* The rows of every per-week table of the store.
WeeklyRows(store) ==
    store.matchups \o store.player_performances \o store.games \o store.transactions

\* C16: when an endpoint call of load() fails, load() raises the
\* SleeperApiError; the failed call is the last call made and was made once,
\* the calls before it are the calls of a complete load in their order, and
\* no step that follows the failed call has run: nothing is stored of a
\* payload that was not fetched, and no SeasonContext row is written.
C16_FetchFailureAborts ==
    pc = "failed" =>
        LET store == conn[1]
            failed == fetched[Len(fetched)]
            plan == FetchPlan(IF week_override # None /\ week_override[1] # 0
                              THEN week_override[1] ELSE UpstreamWeek)
        IN  /\ result = Some([raised |-> Some("SleeperApiError"), value |-> None])
            /\ Len(fetched) <= Len(plan)
            /\ fetched = SubSeq(plan, 1, Len(fetched))
            /\ \A i \in 1..(Len(fetched) - 1) : fetched[i] # failed
            /\ store.season_context = <<>>
            /\ failed.endpoint \in {"league", "users", "rosters", "state"}
                    => store = EmptyStore
            /\ failed.endpoint \notin {"winners_bracket", "losers_bracket"}
                    => store.standings = <<>>
            /\ failed.week = None => failed.endpoint \in
                    {"winners_bracket", "losers_bracket"} \/ WeeklyRows(store) = <<>>
            /\ failed.week # None =>
                    /\ \A i \in 1..Len(WeeklyRows(store)) :
                            WeeklyRows(store)[i].week <= failed.week[1]
                    /\ \A i \in 1..Len(store.transactions) :
                            store.transactions[i].week < failed.week[1]
                    /\ failed.endpoint = "matchups" =>
                            \A i \in 1..Len(store.matchups) :
                                store.matchups[i].week < failed.week[1]

\* The transactions call of week 2 failed: week 1 is stored whole, week 2
\* has its matchups only.
C16_Witness ==
    /\ pc = "failed"
    /\ fetched[Len(fetched)] = [endpoint |-> "transactions", week |-> Some(2)]
    /\ \E i \in 1..Len(conn[1].matchups) : conn[1].matchups[i].week = 2
    /\ \E i \in 1..Len(conn[1].transactions) : conn[1].transactions[i].week = 1

(***************************************************************************)
(* SleeperLeagueData : calls before load()                                 *)
(***************************************************************************)
PublicMethods ==
    {"save_to_file", "get_league_snapshot", "get_bench_analysis", "get_standings",
     "get_team_dossier", "get_team_schedule", "get_week_games",
     "get_week_games_with_players", "get_team_game", "get_team_game_with_players",
     "get_week_player_leaderboard", "get_transactions", "get_team_transactions",
     "get_week_transactions", "get_team_week_transactions", "get_player_summary",
     "get_player_weekly_log", "get_player_weekly_log_range", "get_roster_current",
     "get_roster_snapshot", "run_sql", "get_playoff_bracket", "get_team_playoff_path"}

\* C17: a public query method, or save_to_file, called before load() has
\* been called raises the RuntimeError "Data not loaded" : it raises no
\* other exception, returns no value, executes no statement and leaves the
\* facade without a store.
C17_NotReadyBeforeLoad ==
    [][(conn = None /\ request' # request /\ request'[1].op # "load")
        => (/\ request'[1].op \in PublicMethods
            /\ result'[1].raised = Some("RuntimeError")
            /\ result'[1].value = None
            /\ executed' = executed
            /\ conn' = None)]_vars

\* save_to_file was refused on a facade that never loaded.
C17_Witness ==
    /\ pc = "refused"
    /\ conn = None
    /\ request[1].op = "save_to_file"
    /\ result[1].raised = Some("RuntimeError")
(***************************************************************************)
(* sleeper_api/client.py : SleeperClient.get_json and its file cache       *)
(*                                                                         *)
(* `cache` maps the cache key of every file in the cache directory to the  *)
(* file.  The clock counts half days.  sha256 is taken as injective: the   *)
(* key is the normalized triple it hashes.  `http_requests` holds the      *)
(* requests sent by the call in `request`, each with what it met.          *)
(***************************************************************************)
MaxClock == 2
CacheTtl == 2

\* str.lstrip("/") and str.rstrip("/")
RECURSIVE LStripSlash(_)
LStripSlash(str) ==
    IF str # <<>> /\ Head(str) = "/" THEN LStripSlash(Tail(str)) ELSE str

RECURSIVE RStripSlash(_)
RStripSlash(str) ==
    IF str # <<>> /\ str[Len(str)] = "/"
    THEN RStripSlash(SubSeq(str, 1, Len(str) - 1)) ELSE str

\* _cache_key: params is None or a dict, here a set of (name, value) pairs.
cache_key(base_url, path, params) ==
    [base_url |-> RStripSlash(base_url),
     path |-> <<"/">> \o LStripSlash(path),
     params |-> IF params = None THEN {} ELSE params[1]]

\* The fetched_at of a cache file: missing, "", a text that is no ISO
\* date, or a time.
FetchedAtTime(t) == [kind |-> "time", at |-> t]
NoFetchedAt == {[kind |-> "missing"], [kind |-> "empty"], [kind |-> "invalid"]}

\* A cache file: unreadable (OSError, or no JSON), or a JSON object.  Its
\* payload is None when the file says null or has no payload.
UnreadableFile == [readable |-> FALSE]
CacheFile(fetched_at, payload) ==
    [readable |-> TRUE, fetched_at |-> fetched_at, payload |-> payload]

\* _read_cached_payload at the time `now`
read_cached_payload(files, key, now) ==
    IF key \notin DOMAIN files THEN None
    ELSE IF ~files[key].readable THEN None
    ELSE IF files[key].fetched_at \in NoFetchedAt THEN None
    ELSE IF now - files[key].fetched_at.at >= CacheTtl THEN None
    ELSE files[key].payload

\* _write_cached_payload; an OSError leaves the directory as it was.
write_cached_payload(files, key, payload, now, written) ==
    IF ~written THEN files
    ELSE [k \in DOMAIN files \cup {key} |->
            IF k = key THEN CacheFile(FetchedAtTime(now), payload) ELSE files[k]]

\* What requests.get meets: a transport error, an HTTP error status, an
\* empty body, a body that is no JSON, or a JSON body (null is None).
Responses ==
    {[kind |-> "RequestException"], [kind |-> "HTTPError"], [kind |-> "empty"],
     [kind |-> "invalid_json"]}
        \cup {[kind |-> "json", payload |-> payload] : payload \in {None, Some("v")}}

\* get_json: the value or exception, the requests sent, the files left.
get_json(files, base_url, path, params, now, response, written) ==
    LET key == cache_key(base_url, path, params)
        cached_payload == read_cached_payload(files, key, now)
        sent == <<[url |-> RStripSlash(base_url) \o <<"/">> \o LStripSlash(path),
                   params |-> params, response |-> response]>>
    IN  IF cached_payload # None
        THEN [raised |-> None, value |-> cached_payload, sent |-> <<>>, files |-> files]
        ELSE IF response.kind # "json"
        THEN [raised |-> Some("SleeperApiError"), value |-> None, sent |-> sent,
              files |-> files]
        ELSE [raised |-> None, value |-> response.payload, sent |-> sent,
              files |-> write_cached_payload(files, key, response.payload, now, written)]

ClientBaseUrl == <<"u", "/">>
ClientPaths == {<<"a">>, <<"/", "a">>}
ClientParams == {None, Some({}), Some({<<"k", "1">>})}

\* The cache directory at the start: empty, or one file left by an earlier
\* run (or by anything else that writes there).
InitClient ==
    /\ cache \in {<<>>} \cup
            {[k \in {key} |-> file] :
                key \in {cache_key(ClientBaseUrl, <<"a">>, None)},
                file \in {UnreadableFile} \cup
                    {CacheFile(fetched_at, payload) :
                        fetched_at \in NoFetchedAt
                            \cup {FetchedAtTime(t) : t \in 0..MaxClock},
                        payload \in {None, Some("c")}}}
    /\ http_requests = <<>>
    /\ fetched = <<>>
    /\ request = None
    /\ result = None
    /\ executed = <<>>
    /\ conn = None
    /\ matchup_rows = <<>>
    /\ games = <<>>
    /\ raw_rosters = <<>>
    /\ roster_players = <<>>
    /\ week_override = None
    /\ effective_week = None
    /\ upstream = None
    /\ pc = "idle"

GetJson ==
    \E path \in ClientPaths, params \in ClientParams, now \in 0..MaxClock,
       response \in Responses, written \in BOOLEAN :
        LET out == get_json(cache, ClientBaseUrl, path, params, now, response, written)
        IN  /\ pc \in {"idle", "returned", "raised"}
            /\ response.kind # "json" => written
            /\ request' = Some([op |-> "get_json", base_url |-> ClientBaseUrl, path |-> path,
                                params |-> params, now |-> now])
            /\ result' = Some([raised |-> out.raised, value |-> out.value])
            /\ http_requests' = out.sent
            /\ cache' = out.files
            /\ pc' = IF out.raised = None THEN "returned" ELSE "raised"
            /\ UNCHANGED <<conn, executed, fetched, facadeVars, gamesVars, rosterVars>>

NextClient == GetJson

SpecClient == InitClient /\ [][NextClient]_vars

\* The cache file of a call, and whether it is a fresh entry: readable,
\* with a fetched_at less than one day before the call.
RequestKey(call) == cache_key(call.base_url, call.path, call.params)
FreshEntry(files, call) ==
    /\ RequestKey(call) \in DOMAIN files
    /\ files[RequestKey(call)].readable
    /\ files[RequestKey(call)].fetched_at \notin NoFetchedAt
    /\ call.now - files[RequestKey(call)].fetched_at.at < CacheTtl

\* C18: a get_json call that finds a fresh entry under its cache key
\* returns the payload of the entry and sends no HTTP request, whatever the
\* payload is; a call that finds no entry, an entry one day old or older,
\* an unreadable one or one without fetched_at sends the request.
C18_FreshEntryServedWithoutRequest ==
    [][IF FreshEntry(cache, request'[1])
       THEN /\ result'[1].raised = None
            /\ result'[1].value = cache[RequestKey(request'[1])].payload
            /\ http_requests' = <<>>
            /\ cache' = cache
       ELSE Len(http_requests') = 1]_vars
(***************************************************************************)
(* SleeperLeagueData.load : a repeated load                                *)
(***************************************************************************)
\* C19: whenever a load() has completed, on a new facade, after an earlier
\* load or after a failed one, the store holds exactly the rows of a single
\* load of the upstream responses; and a step of any other operation
\* leaves every table as it was.
C19_LoadRebuildsStore ==
    /\ [](pc = "loaded" => conn = Some(LoadedStore(upstream[1], week_override)))
    /\ [][pc' \notin {"loaded", "failed"} => conn' = conn]_vars

\* A load() completed on a facade whose previous load had failed after
\* storing rows of week 1.
C19_Witness ==
    /\ pc = "loaded"
    /\ request = Some([op |-> "load"])
    /\ result[1].raised = Some("SleeperApiError")
    /\ Len(fetched) > Len(FetchPlan(0))
    /\ conn = Some(LoadedStore(upstream[1], week_override))
    /\ conn[1].games # <<>>
(***************************************************************************)
(* The query layer on a loaded store                                       *)
(***************************************************************************)
\* C20: a call of the query layer on the store of a completed load (a
\* query method, or run_sql with a statement it accepts or rejects) leaves
\* every table with the rows it had, and a rejected statement is not
\* handed to the store.
C20_QueriesLeaveStoreUnchanged ==
    [][(LoadCompleted /\ request' # request /\ request'[1].op # "load")
        => (/\ conn' # None
            /\ \A table \in DOMAIN EmptyStore : conn'[1][table] = conn[1][table]
            /\ result'[1].raised = Some("ValueError") => executed' = executed)]_vars

\* run_sql executed an accepted statement on a loaded store that has rows.
C20_Witness ==
    /\ pc = "ran"
    /\ request[1].op = "run_sql"
    /\ result[1].raised = None
    /\ executed # <<>>
    /\ conn[1].rosters # <<>>
    /\ conn[1].games # <<>>
(***************************************************************************)
(* sleeper_league_data.py : load(), the standings rows                     *)
(***************************************************************************)
\* The weeks the record strings of the upstream rosters decode to, playoff
\* weeks excluded, and the live-snapshot rows of a week.
UpstreamDecodedWeeks ==
    LET decoded == RecordStandings(upstream[1].rosters, CharsPerWeek(upstream[1].league),
                        normalize_league(upstream[1].league).playoff_week_start)
    IN  {decoded[i].week : i \in 1..Len(decoded)}
LiveRows(week) == normalize_standings(upstream[1].rosters, week)
LiveStored(week) ==
    \A i \in 1..Len(LiveRows(week)) : InSeq(conn[1].standings, LiveRows(week)[i])
SomeLiveStored(week) ==
    \E i \in 1..Len(LiveRows(week)) : InSeq(conn[1].standings, LiveRows(week)[i])

\* The condition of the live snapshot: no decoded week, or an effective
\* week beyond the last decoded week and before the playoffs.
LiveExpected ==
    LET pws == normalize_league(upstream[1].league).playoff_week_start
    IN  \/ UpstreamDecodedWeeks = {}
        \/ /\ \A w \in UpstreamDecodedWeeks : effective_week[1] > w
           /\ pws = None \/ effective_week[1] < pws[1]

DecodedWeeksStored(roster_id) ==
    {conn[1].standings[i].week : i \in
        {j \in 1..Len(conn[1].standings) :
            /\ conn[1].standings[j].roster_id = roster_id
            /\ ~InSeq(LiveRows(conn[1].standings[j].week), conn[1].standings[j])}}

\* The number of weeks a record string encodes: its characters, blanks
\* apart, over chars_per_week.
RecordWeekCount(record_string) ==
    Len(SelectSeq(record_string, LAMBDA ch : ~IsSpaceChar(ch)))
        \div CharsPerWeek(upstream[1].league)

\* C22: for every roster with a record string, the store of a completed
\* load holds decoded standings rows for exactly the weeks 1..n, n the
\* length of the string over chars_per_week, that are before
\* playoff_week_start.
C22_DecodedWeeksStored ==
    LoadCompleted =>
        \A i \in 1..Len(upstream[1].rosters) :
            LET roster == upstream[1].rosters[i]
                pws == normalize_league(upstream[1].league).playoff_week_start
            IN  roster.metadata.record # None =>
                    DecodedWeeksStored(roster.roster_id)
                        = {w \in 1..RecordWeekCount(roster.metadata.record[1]) :
                                pws = None \/ w < pws[1]}

(***************************************************************************)
(* sleeper_league_data.py : load(), the order of the weekly fetches        *)
(***************************************************************************)
\* The rows of a table that are of a week before `week`.
RowsBefore(table, week) == SelectSeq(table, LAMBDA row : row.week < week)

\* The moves of the transactions of the weeks before `week`.
MovesBefore(store, week) ==
    SelectSeq(store.transaction_moves, LAMBDA move :
        \E i \in 1..Len(store.transactions) :
            /\ store.transactions[i].transaction_id = move.transaction_id
            /\ store.transactions[i].week < week)

\* The tables of load()'s weekly loop, whose rows carry the week of the loop.
WeeklyTables == {"matchups", "player_performances", "games", "transactions"}

WeeksOf(rows) == {rows[i].week : i \in 1..Len(rows)}

\* C29: after a completed load every row of matchups, player_performances,
\* games, transactions and standings has a week within 1..effective_week.
C29_WeeksWithinEffectiveWeek ==
    LoadCompleted =>
        \A table \in WeeklyTables \cup {"standings"} :
            WeeksOf(conn[1][table]) \subseteq 1..effective_week[1]

\* C29 (amended): after a completed load every row of matchups,
\* player_performances, games and transactions has a week within
\* 1..effective_week; a standings row has a week within 1..effective_week
\* or is a row decoded from a roster's record string (no rank, no points)
\* for a week of that string, which may lie beyond effective_week.
C29_WeeksWithinEffectiveOrDecodedWeek ==
    LoadCompleted =>
        /\ \A table \in WeeklyTables :
                WeeksOf(conn[1][table]) \subseteq 1..effective_week[1]
        /\ \A i \in 1..Len(conn[1].standings) :
                LET row == conn[1].standings[i]
                IN  \/ row.week \in 1..effective_week[1]
                    \/ /\ row.week \in UpstreamDecodedWeeks
                       /\ row.rank = None
                       /\ row.points_for = 0

\* A load under the week override 1 of a league whose record strings encode
\* three weeks: matchups of week 1 only, standings up to week 3.
C29_Witness ==
    /\ LoadCompleted
    /\ week_override = Some(1)
    /\ effective_week = Some(1)
    /\ WeeksOf(conn[1].matchups) = {1}
    /\ WeeksOf(conn[1].transactions) = {1}
    /\ WeeksOf(conn[1].standings) = {1, 2, 3}

\* C23: the calls of a load() with effective week E name the matchups and
\* transactions endpoints for weeks within 1..E only, in ascending week
\* order with the matchups of a week before its transactions, and no call
\* is made twice; a load() that ran to its end made each weekly call
\* exactly once for every week 1..E; and when the call for a week is made,
\* every row of the earlier weeks (matchups, player performances, games,
\* transactions, moves) is already in the store.
C23_WeeksFetchedInOrder ==
    fetched # <<>> =>
        LET E == EffectiveWeek(week_override, ComputedWeek(upstream[1].state))
            last == fetched[Len(fetched)]
            full == LoadedStore(upstream[1], week_override)
        IN  /\ \A i \in 1..Len(fetched) :
                    fetched[i].week # None =>
                        /\ fetched[i].endpoint \in {"matchups", "transactions"}
                        /\ fetched[i].week[1] \in 1..E
            /\ \A i, j \in 1..Len(fetched) :
                    (i < j /\ fetched[i].week # None /\ fetched[j].week # None) =>
                        \/ fetched[i].week[1] < fetched[j].week[1]
                        \/ /\ fetched[i].week = fetched[j].week
                           /\ fetched[i].endpoint = "matchups"
                           /\ fetched[j].endpoint = "transactions"
            /\ \A i, j \in 1..Len(fetched) : i # j => fetched[i] # fetched[j]
            /\ LoadCompleted =>
                    \A w \in 1..E : \A endpoint \in {"matchups", "transactions"} :
                        InSeq(fetched, [endpoint |-> endpoint, week |-> Some(w)])
            /\ (~LoadCompleted /\ last.week # None) =>
                    /\ \A table \in {"matchups", "player_performances", "games",
                                     "transactions"} :
                            RowsBefore(conn[1][table], last.week[1])
                                = RowsBefore(full[table], last.week[1])
                    /\ MovesBefore(conn[1], last.week[1]) = MovesBefore(full, last.week[1])
                    /\ conn[1].transaction_moves = MovesBefore(conn[1], last.week[1])

\* The matchups call of week 2 was made (and failed) after the calls of
\* week 1, with the rows of week 1 stored.
C23_Witness ==
    /\ pc = "failed"
    /\ fetched[Len(fetched)] = [endpoint |-> "matchups", week |-> Some(2)]
    /\ InSeq(fetched, [endpoint |-> "transactions", week |-> Some(1)])
    /\ conn[1].transactions # <<>>
    /\ conn[1].transaction_moves # <<>>
    /\ conn[1].games # <<>>

(***************************************************************************)
(* sleeper_league_data.py : load(), one bulk_insert call at a time         *)
(*                                                                         *)
(* Here `upstream` says which of the normalized row lists of the run are   *)
(* not empty (an empty list is not handed to bulk_insert), and `executed`  *)
(* is the list of the bulk_insert calls made so far: the table, and the    *)
(* week for a call of the per-week loop.                                   *)
(***************************************************************************)
\* schema/ddl.py: the (table, referenced table) pairs of DDL_REGISTRY.
ForeignKeys ==
    {<<"season_context", "leagues">>, <<"rosters", "leagues">>, <<"rosters", "users">>,
     <<"team_profiles", "rosters">>, <<"draft_picks", "rosters">>,
     <<"matchups", "leagues">>, <<"matchups", "rosters">>,
     <<"games", "leagues">>, <<"games", "rosters">>,
     <<"roster_players", "rosters">>, <<"roster_players", "players">>,
     <<"transactions", "leagues">>, <<"transaction_moves", "transactions">>,
     <<"standings", "rosters">>}

\* The row lists of a run.  team_profiles has a row per roster; draft
\* picks, roster players and standings rows are made from rosters; games
\* and player performances from matchup rows; moves from transactions;
\* the weekly lists exist only for an effective week above 0.
RowListFlags ==
    {f \in [users : BOOLEAN, rosters : BOOLEAN, draft_picks : BOOLEAN,
            players : BOOLEAN, roster_players : BOOLEAN, matchups : BOOLEAN,
            player_performances : BOOLEAN, games : BOOLEAN, transactions : BOOLEAN,
            transaction_moves : BOOLEAN, decoded : BOOLEAN, live : BOOLEAN,
            winners : BOOLEAN, losers : BOOLEAN, effective : 0..MaxWeek] :
        /\ (f.draft_picks \/ f.roster_players \/ f.decoded \/ f.live) => f.rosters
        /\ (f.player_performances \/ f.games) => f.matchups
        /\ f.transaction_moves => f.transactions
        /\ (f.matchups \/ f.transactions \/ f.decoded \/ f.live) => f.effective > 0}

\* The bulk_insert calls of a load() that inserts roster_players next to
\* rosters, before the player catalog.
InsertPlanRosterPlayersEarly(f) ==
    LET Insert(cond, table) == IF cond THEN <<[table |-> table, week |-> None]>> ELSE <<>>
        InsertOf(cond, table, w) ==
            IF cond THEN <<[table |-> table, week |-> Some(w)]>> ELSE <<>>
    IN  Insert(TRUE, "leagues") \o Insert(f.users, "users") \o Insert(f.rosters, "rosters")
        \o Insert(f.roster_players, "roster_players")
        \o Insert(f.rosters, "team_profiles") \o Insert(f.draft_picks, "draft_picks")
        \o Insert(f.players, "players")
        \o Flatten([w \in 1..f.effective |->
                InsertOf(f.matchups, "matchups", w)
                \o InsertOf(f.player_performances, "player_performances", w)
                \o InsertOf(f.games, "games", w)
                \o InsertOf(f.transactions, "transactions", w)
                \o InsertOf(f.transaction_moves, "transaction_moves", w)])
        \o Insert(f.decoded, "standings") \o Insert(f.live, "standings")
        \o Insert(f.winners, "playoff_matchups") \o Insert(f.losers, "playoff_matchups")
        \o Insert(TRUE, "season_context")

\* The bulk_insert calls of load(), in order.
InsertPlan(f) ==
    LET Insert(cond, table) == IF cond THEN <<[table |-> table, week |-> None]>> ELSE <<>>
        InsertOf(cond, table, w) ==
            IF cond THEN <<[table |-> table, week |-> Some(w)]>> ELSE <<>>
    IN  Insert(TRUE, "leagues") \o Insert(f.users, "users") \o Insert(f.rosters, "rosters")
        \o Insert(f.rosters, "team_profiles") \o Insert(f.draft_picks, "draft_picks")
        \o Insert(f.players, "players") \o Insert(f.roster_players, "roster_players")
        \o Flatten([w \in 1..f.effective |->
                InsertOf(f.matchups, "matchups", w)
                \o InsertOf(f.player_performances, "player_performances", w)
                \o InsertOf(f.games, "games", w)
                \o InsertOf(f.transactions, "transactions", w)
                \o InsertOf(f.transaction_moves, "transaction_moves", w)])
        \o Insert(f.decoded, "standings") \o Insert(f.live, "standings")
        \o Insert(f.winners, "playoff_matchups") \o Insert(f.losers, "playoff_matchups")
        \o Insert(TRUE, "season_context")

InitIngest ==
    /\ upstream \in {Some(f) : f \in RowListFlags}
    /\ executed = <<>>
    /\ pc = "loading"
    /\ conn = None
    /\ request = None
    /\ result = None
    /\ matchup_rows = <<>>
    /\ games = <<>>
    /\ raw_rosters = <<>>
    /\ roster_players = <<>>
    /\ week_override = None
    /\ effective_week = None
    /\ fetched = <<>>
    /\ cache = <<>>
    /\ http_requests = <<>>

\* The next bulk_insert call of the run.
BulkInsert ==
    /\ pc = "loading"
    /\ Len(executed) < Len(InsertPlan(upstream[1]))
    /\ executed' = Append(executed, InsertPlan(upstream[1])[Len(executed) + 1])
    /\ pc' = IF Len(executed') = Len(InsertPlan(upstream[1])) THEN "loaded" ELSE "loading"
    /\ UNCHANGED <<conn, request, result, facadeVars, clientVars, gamesVars, rosterVars>>

NextIngest == BulkInsert

SpecIngest == InitIngest /\ [][NextIngest]_vars

\* C24: at every bulk_insert call of a load(), each call of the run that
\* inserts into a table the inserted table references by a foreign key
\* (for a table of the per-week loop that references another: the call of
\* the same week) has been made before: no such call comes later, the
\* leagues call is the first of the run and the moves of a week follow the
\* transactions of that week.
C24_ReferencedTablesFirst ==
    /\ \A i, j \in 1..Len(executed) :
            (i < j /\ <<executed[i].table, executed[j].table>> \in ForeignKeys)
                => /\ executed[i].week # None
                   /\ executed[j].week # None
                   /\ executed[j].week # executed[i].week
    /\ executed # <<>> => executed[1].table = "leagues"
    /\ \A i \in 1..Len(executed) :
            executed[i].table = "transaction_moves" =>
                \E j \in 1..(i - 1) :
                    executed[j] = [table |-> "transactions", week |-> executed[i].week]

\* A run that inserted into every table has made the roster_players call
\* after the players call and the moves call of week 2 after the
\* transactions call of week 2.
C24_Witness ==
    /\ pc = "loaded"
    /\ \A fk \in ForeignKeys : \A k \in 1..2 :
            \E i \in 1..Len(executed) : executed[i].table = fk[k]
    /\ InSeq(executed, [table |-> "transaction_moves", week |-> Some(2)])

\* C25: a get_json call that finds no fresh entry sends exactly one
\* request; when the request fails (transport error, error status, empty
\* body, no JSON) the call raises SleeperApiError and leaves the cache as
\* it was; when it succeeds the call returns the payload, whether or not
\* the entry could be written, and the cache is as before or holds the
\* entry (fetched_at, payload) under the key; and after a call that wrote
\* its entry, the same call repeated at the same time sends no request.
C25_MissFetchesOnceAndCaches ==
    [][/\ ~FreshEntry(cache, request'[1]) =>
            /\ Len(http_requests') = 1
            /\ LET response == http_requests'[1].response
                   key == RequestKey(request'[1])
               IN  IF response.kind # "json"
                   THEN /\ result' = Some([raised |-> Some("SleeperApiError"),
                                           value |-> None])
                        /\ cache' = cache
                   ELSE /\ result' = Some([raised |-> None, value |-> response.payload])
                        /\ \/ cache' = cache
                           \/ /\ key \in DOMAIN cache'
                              /\ cache'[key] = CacheFile(FetchedAtTime(request'[1].now),
                                                         response.payload)
                              /\ \A k \in DOMAIN cache' \ {key} :
                                    k \in DOMAIN cache /\ cache'[k] = cache[k]
       /\ (/\ request # None
           /\ request' = request
           /\ http_requests # <<>>
           /\ result[1].raised = None
           /\ RequestKey(request[1]) \in DOMAIN cache
           /\ cache[RequestKey(request[1])]
                = CacheFile(FetchedAtTime(request[1].now), result[1].value))
            => http_requests' = <<>>]_vars

(***************************************************************************)
(* queries/league.py : get_standings on stores with ranked and unranked    *)
(* standings rows                                                          *)
(***************************************************************************)
MaxStandingRows == 3

\* Stores with the standings rows of one week: a row per roster, with or
\* without a rank and points, and the matchup rows of weeks 1 and 2 of the
\* first two rosters.
StandingStores ==
    LET Name(r) == Some(<<"r", r>>)
        Row(w, r, v) == [week |-> w, roster_id |-> r, wins |-> v.wins, losses |-> 0,
                         ties |-> 0, points_for |-> v.points_for, points_against |-> 0,
                         rank |-> v.rank]
        Values == [wins : {0, 1}, points_for : {0, 25}, rank : {None, Some(1), Some(2)}]
        Matchups == [i \in 1..4 |->
                        [week |-> 1 + ((i - 1) \div 2), matchup_id |-> 1,
                         roster_id |-> 1 + ((i - 1) % 2), points |-> 10 * i]]
    IN  {[EmptyStore EXCEPT
            !.team_profiles = [r \in 1..n |-> [roster_id |-> r, team_name |-> Name(r),
                                               manager_name |-> None]],
            !.matchups = Matchups,
            !.standings = [r \in 1..n |-> Row(w, r, values[r])],
            !.season_context = <<[computed_week |-> 2, override_week |-> None,
                                  effective_week |-> 2]>>] :
          n \in 1..MaxStandingRows, w \in 1..2, values \in [1..MaxStandingRows -> Values]}

InitStandings ==
    /\ conn \in {Some(store) : store \in StandingStores}
    /\ pc = "loaded"
    /\ request = None
    /\ result = None
    /\ executed = <<>>
    /\ matchup_rows = <<>>
    /\ games = <<>>
    /\ raw_rosters = <<>>
    /\ roster_players = <<>>
    /\ week_override = None
    /\ effective_week = Some(2)
    /\ upstream = None
    /\ fetched = <<>>
    /\ cache = <<>>
    /\ http_requests = <<>>

NextStandings == GetStandings

SpecStandings == InitStandings /\ [][NextStandings]_vars

\* The stored standings rows of the week that was asked, the returned row
\* of a roster, and the matchup points of a roster through that week.
StoredOfWeek == SelectSeq(conn[1].standings, LAMBDA st : st.week = AskedWeek)
ReturnedFor(roster_id) ==
    SelectSeq(Answer.standings, LAMBDA row : row.team_name = Some(<<"r", roster_id>>))
PointsThrough(roster_id, week) ==
    LET Total[i \in 0..Len(conn[1].matchups)] ==
            IF i = 0 THEN 0
            ELSE Total[i - 1]
                 + (IF /\ conn[1].matchups[i].roster_id = roster_id
                       /\ conn[1].matchups[i].week <= week
                    THEN conn[1].matchups[i].points ELSE 0)
    IN  Total[Len(conn[1].matchups)]

C30_AnswersOnlyAfterCompletedLoad ==
    (result # None /\ request[1].op \in PublicMethods) =>
        \/ result[1] = NotLoaded
        \/ /\ Len(conn[1].season_context) = 1
           /\ \A table \in DOMAIN EmptyStore \ {"season_context"} :
                    Len(conn[1][table]) = Len(LoadedStore(upstream[1], week_override)[table])

====
